---- MODULE Spec2Model ----
(***************************************************************************)
(* Avatar terrain viewer: the sector decoder, the water record parser, the *)
(* sector ordering policies and the mosaic compositor of                   *)
(* Terrain_Data_To_Heightmap_Avatar_Water_Test.py (class TerrainViewer).   *)
(*                                                                         *)
(* Conventions.                                                            *)
(*  - A numpy array is a sequence of rows; row r / column c of the source  *)
(*    (0-based) is element r+1 / c+1 here.  An array of shape (65, 0) is   *)
(*    a sequence of 65 empty rows.                                         *)
(*  - Python's None, for a value that is otherwise an array, is <<>>.      *)
(*  - A float computed by the program is held as the exact rational it     *)
(*    denotes, <<n, d>> in lowest terms with d > 0 (raw/128 is exact in    *)
(*    binary floating point; the blend's float32 rounding is not           *)
(*    modelled).                                                           *)
(*  - A dict is a function whose DOMAIN is the set of keys.                *)
(*  - The viewer never writes into an array once it is built.  A field or  *)
(*    dict entry of the viewer that refers to a large array holds the      *)
(*    inputs the array was built from, and an operator gives the array:    *)
(*    SectorArray for a decoded sector, TextureArray for a loaded texture, *)
(*    combined_map and combined_texture for the two mosaics.               *)
(***************************************************************************)
EXTENDS Integers, Sequences, FiniteSets, TLC

VARIABLES
    self,      \* the TerrainViewer object: its fields
    display,   \* what the last update_display showed and whether it raised
    call,      \* the last direct call of a pure method, or the last export:
               \* arguments and result
    platform   \* the build the process runs on: numpy's answer to ragged rows
               \* and the encoding of standard output; fixed for a run

vars == <<self, display, call, platform>>

(***************************************************************************)
(* Program constants.                                                      *)
(***************************************************************************)
grid_size == 65
HeaderBytes == 708
TerrainBytes == 16900
height_offset == 176
HeightDivisor == 128

(***************************************************************************)
(* Bounds of the model.                                                    *)
(***************************************************************************)
MaxSectors == 2
MaxProbeSectors == 5

None == <<>>

(***************************************************************************)
(* Exact rationals.                                                        *)
(***************************************************************************)
RECURSIVE GCD(_, _)
GCD(a, b) == IF b = 0 THEN a ELSE GCD(b, a % b)

Abs(n) == IF n < 0 THEN -n ELSE n

Rat(n, d) ==
    LET g == GCD(Abs(n), Abs(d))
        s == IF d < 0 THEN -1 ELSE 1
    IN  <<s * (n \div g), s * (d \div g)>>

Zero == <<0, 1>>

(***************************************************************************)
(* The ordering policies (the values of the "Pattern" combobox), and a     *)
(* name that is none of them.  The source spells the fourth "Swap 0<->3"   *)
(* with a two-headed arrow character.                                      *)
(***************************************************************************)
PatVertical   == "Avatar Game Layout (2x2 blocks, vertical)"
PatHorizontal == "Avatar Game Layout - Horizontal"
PatNoSwap     == "Avatar Game Layout - No Swap"
PatSwap03     == "Avatar Game Layout - Swap 0<->3"

BlockPatterns == {PatVertical, PatHorizontal, PatNoSwap, PatSwap03}

OrderPatterns ==
    BlockPatterns \cup
    { "Bottom-Left Sequential", "Top-Left Sequential",
      "Bottom-Right Sequential", "Top-Right Sequential",
      "Bottom-Left by Column", "Top-Left by Column" }

UnknownPattern == "Unknown Pattern"

\* names the combobox does not offer: a new one, the empty string, a known
\* name in lower case and a known name cut short
UnknownPatterns ==
    { UnknownPattern, "", "bottom-left sequential", "Top-Left" }

(***************************************************************************)
(* get_sector_index_from_position: the sector number shown at display      *)
(* position (display_row, col) of a sectors_x by sectors_y grid.  me is    *)
(* the viewer (the source's self).                                         *)
(***************************************************************************)
\* the offsets of a block, were no policy to swap any
BlockOffsetUnswapped(pattern, within_block_row, within_block_col) ==
    2 * within_block_row + within_block_col

BlockOffset(pattern, within_block_row, within_block_col) ==
    IF pattern \in {PatVertical, PatHorizontal}
    THEN IF within_block_row = 0 /\ within_block_col = 0 THEN 0
         ELSE IF within_block_row = 0 /\ within_block_col = 1 THEN 2
         ELSE IF within_block_row = 1 /\ within_block_col = 0 THEN 1
         ELSE 3
    ELSE IF pattern = PatNoSwap
    THEN IF within_block_row = 0 /\ within_block_col = 0 THEN 0
         ELSE IF within_block_row = 0 /\ within_block_col = 1 THEN 1
         ELSE IF within_block_row = 1 /\ within_block_col = 0 THEN 2
         ELSE 3
    ELSE \* PatSwap03
         IF within_block_row = 0 /\ within_block_col = 0 THEN 3
         ELSE IF within_block_row = 0 /\ within_block_col = 1 THEN 1
         ELSE IF within_block_row = 1 /\ within_block_col = 0 THEN 2
         ELSE 0

\* the resolver, were every block policy to count its blocks row by row
row_major_blocks(me, display_row, col, sectors_x, sectors_y) ==
    ((display_row \div 2) * (sectors_x \div 2) + (col \div 2)) * 4
        + BlockOffset(me.sector_order_pattern, display_row % 2, col % 2)

\* the resolver, were every policy the top-left row-major one
top_left_sequential(me, display_row, col, sectors_x, sectors_y) ==
    display_row * sectors_x + col

get_sector_index_from_position(me, display_row, col, sectors_x, sectors_y) ==
    LET pattern == me.sector_order_pattern
        block_col == col \div 2
        block_row == display_row \div 2
        within_block_col == col % 2
        within_block_row == display_row % 2
        blocks_per_column == sectors_y \div 2
        blocks_per_row == sectors_x \div 2
        sector_row == sectors_y - 1 - display_row
        sector_col == sectors_x - 1 - col
    IN  IF pattern \in {PatVertical, PatNoSwap, PatSwap03}
        THEN (block_col * blocks_per_column + block_row) * 4
                 + BlockOffset(pattern, within_block_row, within_block_col)
        ELSE IF pattern = PatHorizontal
        THEN (block_row * blocks_per_row + block_col) * 4
                 + BlockOffset(pattern, within_block_row, within_block_col)
        ELSE IF pattern = "Bottom-Left Sequential"
        THEN sector_row * sectors_x + col
        ELSE IF pattern = "Top-Left Sequential"
        THEN display_row * sectors_x + col
        ELSE IF pattern = "Bottom-Right Sequential"
        THEN sector_row * sectors_x + sector_col
        ELSE IF pattern = "Top-Right Sequential"
        THEN display_row * sectors_x + sector_col
        ELSE IF pattern = "Bottom-Left by Column"
        THEN col * sectors_y + sector_row
        ELSE IF pattern = "Top-Left by Column"
        THEN col * sectors_y + display_row
        ELSE sector_row * sectors_x + col

(***************************************************************************)
(* Sector files.  A .csdat file is given by its length and the rule that   *)
(* yields its bytes, instead of a 17608-element table:                     *)
(*   len    number of bytes in the file                                    *)
(*   water  the four bytes at 0xB0..0xB3                                   *)
(*   mat    [at, bytes]: a run of bytes placed at offset at (none: at -1)  *)
(*   hdr    every other byte outside the terrain block                     *)
(*   val    <<a, b, c>>: the 16-bit value of terrain cell (y, x) is        *)
(*          (a*y + b*x + c) % 65536, stored low byte first                 *)
(*   pad    the two bytes that follow each value                           *)
(* Byte(f, i) is the byte at offset i (0-based), for i < f.len.            *)
(***************************************************************************)
Min(a, b) == IF a < b THEN a ELSE b
Max(a, b) == IF a > b THEN a ELSE b

RawValue(val, y, x) == (val[1] * y + val[2] * x + val[3]) % 65536

Byte(f, i) ==
    IF i >= height_offset /\ i < height_offset + 4
    THEN f.water[i - height_offset + 1]
    ELSE IF i >= f.mat.at /\ i < f.mat.at + Len(f.mat.bytes)
    THEN f.mat.bytes[i - f.mat.at + 1]
    ELSE IF i < HeaderBytes \/ i >= HeaderBytes + TerrainBytes
    THEN f.hdr
    ELSE LET k == (i - HeaderBytes) \div 4
             j == (i - HeaderBytes) % 4
             raw == RawValue(f.val, k \div grid_size, k % grid_size)
         IN  IF j = 0 THEN raw % 256
             ELSE IF j = 1 THEN raw \div 256
             ELSE f.pad

(***************************************************************************)
(* load_single_sector.  terrain_data is the stream f.read(16900) taken     *)
(* after f.seek(708), tlen bytes long; pos is its read position.  Every    *)
(* cell reads 2 bytes and skips 2, so a row that starts at pos holds the   *)
(* cells x with pos + 4x + 2 <= tlen: the inner loop leaves at the first   *)
(* short read, which also takes the stream to its end.  The outer loop     *)
(* still stores the (short) row and goes on, so all 65 rows exist, row y   *)
(* starting at min(4*65*y, tlen).  np.array of the rows is the 65x65       *)
(* array when every row is full and the (65, 0) array when every row is    *)
(* empty; on rows of unequal length numpy >= 1.24 raises ValueError (the   *)
(* except clause then returns None) and older numpy returns an array of    *)
(* row objects: ragged_raises says which numpy the build has.              *)
(***************************************************************************)
TerrainLen(f) == Max(0, Min(f.len - HeaderBytes, TerrainBytes))

int_from_bytes_big(b0, b1) == 256 * b0 + b1

int_from_bytes_little(b0, b1) == b0 + 256 * b1

read_row(f, tlen, pos) ==
    LET n == IF tlen - pos < 2 THEN 0
             ELSE Min(grid_size, (tlen - pos - 2) \div 4 + 1)
    IN  [ x \in 1..n |->
            Rat(int_from_bytes_little(Byte(f, HeaderBytes + pos + 4 * (x - 1)),
                                      Byte(f, HeaderBytes + pos + 4 * (x - 1) + 1)),
                HeightDivisor) ]

read_rows(f, tlen) ==
    [ y \in 1..grid_size |-> read_row(f, tlen, Min(4 * grid_size * (y - 1), tlen)) ]

IsRagged(rows) == \E i \in 1..Len(rows) : Len(rows[i]) # Len(rows[1])

np_array(rows, ragged_raises) ==
    IF IsRagged(rows) /\ ragged_raises THEN None ELSE rows

load_single_sector(f, ragged_raises) ==
    np_array(read_rows(f, TerrainLen(f)), ragged_raises)

Shape(a) == IF a = None THEN <<0, 0>>
            ELSE IF IsRagged(a) THEN <<Len(a)>>
            ELSE <<Len(a), Len(a[1])>>

IsGrid(a) == Shape(a) = <<grid_size, grid_size>>

(***************************************************************************)
(* struct.unpack('<f', height_bytes): the IEEE-754 single given by four    *)
(* bytes, low byte first, held by its fields (sign, biased exponent,       *)
(* fraction).  Python widens it to a double without changing its value.    *)
(* FloatNonZero is Python's  x != 0.0 : false for +0.0 and -0.0 only.      *)
(***************************************************************************)
struct_unpack_f(b) ==
    [ sign |-> b[4] \div 128,
      exp  |-> (b[4] % 128) * 2 + b[3] \div 128,
      man  |-> (b[3] % 128) * 65536 + b[2] * 256 + b[1] ]

FloatZero == [sign |-> 0, exp |-> 0, man |-> 0]

FloatNonZero(x) == ~(x.exp = 0 /\ x.man = 0)

(***************************************************************************)
(* bytes.find: the least offset >= start at which pattern occurs in the    *)
(* file, -1 if none.                                                       *)
(***************************************************************************)
data_find(f, pattern, start) ==
    LET hits == { i \in start..(f.len - Len(pattern)) :
                    /\ Byte(f, i) = pattern[1]
                    /\ \A k \in 2..Len(pattern) : Byte(f, i + k - 1) = pattern[k] }
    IN  IF hits = {} THEN -1
        ELSE CHOOSE i \in hits : \A j \in hits : i <= j

data_slice(f, from, to) ==
    [ k \in 1..Max(0, Min(to, f.len) - from) |-> Byte(f, from + k - 1) ]

\* b'graphics\\_materials\\editor\\water_' and b'graphics_materials\\editor\\water_'
water_patterns ==
    << <<103, 114, 97, 112, 104, 105, 99, 115, 92, 95, 109, 97, 116, 101, 114,
         105, 97, 108, 115, 92, 101, 100, 105, 116, 111, 114, 92, 119, 97, 116,
         101, 114, 95>>,
       <<103, 114, 97, 112, 104, 105, 99, 115, 95, 109, 97, 116, 101, 114,
         105, 97, 108, 115, 92, 101, 100, 105, 116, 111, 114, 92, 119, 97, 116,
         101, 114, 95>> >>

MaterialSlice == 100

(***************************************************************************)
(* print(text) on the process's standard output: it raises                 *)
(* UnicodeEncodeError when the text holds a character the stream's         *)
(* encoding lacks.  env.stdout_unicode tells whether the stream encodes    *)
(* every character (UTF-8) or ASCII only.  Text is a sequence of code      *)
(* points.                                                                 *)
(***************************************************************************)
print_raises(text, env) ==
    ~env.stdout_unicode /\ \E k \in 1..Len(text) : text[k] >= 128

(***************************************************************************)
(* parse_water_from_sector.  The file was just read by load_single_sector, *)
(* so open() succeeds.                                                     *)
(***************************************************************************)
WaterData(sector_num) ==
    [ sector_num |-> sector_num,
      material_path |-> None,
      has_water |-> FALSE,
      water_height |-> FloatZero,
      hex_offset_material |-> -1,
      hex_offset_height |-> -1 ]

\* height_bytes = data[0xB0:0xB4] and its unpacking
read_water_height(f, water) ==
    [water EXCEPT
       !.water_height = struct_unpack_f(data_slice(f, height_offset, height_offset + 4)),
       !.hex_offset_height = height_offset]

\* graphics_pos: the first pattern that occurs in the file fixes it
find_water_pattern(f) ==
    IF data_find(f, water_patterns[1], 0) # -1
    THEN data_find(f, water_patterns[1], 0)
    ELSE data_find(f, water_patterns[2], 0)

\* the end of the material, were the NUL searched from the start of the file
find_material_end_from_start(f, graphics_pos) ==
    IF graphics_pos = -1 THEN -1 ELSE data_find(f, <<0>>, 0)

find_material_end(f, graphics_pos) ==
    IF graphics_pos = -1 THEN -1 ELSE data_find(f, <<0>>, graphics_pos)

read_material(f, water, graphics_pos, material_end) ==
    IF graphics_pos = -1
    THEN [water EXCEPT !.has_water = TRUE]
    ELSE [water EXCEPT
            !.has_water = TRUE,
            !.material_path =
                IF material_end # -1
                THEN data_slice(f, graphics_pos, material_end)
                ELSE data_slice(f, graphics_pos, graphics_pos + MaterialSlice),
            !.hex_offset_material = graphics_pos]

\* the print of the material line, inside the inner try
print_material(water, env) ==
    IF print_raises(water.material_path, env)
    THEN [water EXCEPT !.water_height = FloatZero]   \* inner except
    ELSE water

read_water(f, water, graphics_pos, env) ==
    print_material(read_material(f, water, graphics_pos,
                                 find_material_end(f, graphics_pos)), env)

check_water_height(f, water, env) ==
    IF ~FloatNonZero(water.water_height) THEN water
    ELSE read_water(f, water, find_water_pattern(f), env)

parse_water_from_sector(f, sector_num, env) ==
    IF f.len < height_offset + 4
    THEN WaterData(sector_num)
    ELSE check_water_height(f, read_water_height(f, WaterData(sector_num)), env)

(***************************************************************************)
(* The files the model draws its inputs from.                              *)
(***************************************************************************)
FullLen == HeaderBytes + TerrainBytes

NoMat == [at |-> -1, bytes |-> <<>>]

NoWater == <<0, 0, 0, 0>>

MkFile(len, val, pad, hdr) ==
    [len |-> len, water |-> NoWater, mat |-> NoMat, hdr |-> hdr, val |-> val, pad |-> pad]

ValPatterns == { <<0, 0, 384>>, <<130, 1, 300>>, <<1, 259, 40000>> }

ProbeLens ==
    { 0, 1, HeaderBytes - 1, HeaderBytes, HeaderBytes + 1, HeaderBytes + 2,
      HeaderBytes + 4 * grid_size, HeaderBytes + 4 * grid_size + 6,
      FullLen - 3, FullLen - 2, FullLen - 1, FullLen, FullLen + 1, FullLen + 40 }

ProbeFiles ==
    { MkFile(len, val, pad, hdr) :
        len \in ProbeLens, val \in ValPatterns, pad \in {0, 171}, hdr \in {0, 90} }

\* 1.0, -0.0, 0.0, the least denormal, a NaN, 2.5
WaterBytes ==
    { <<0, 0, 128, 63>>, <<0, 0, 0, 128>>, NoWater, <<1, 0, 0, 0>>,
      <<1, 0, 192, 127>>, <<0, 0, 32, 64>> }

MatAt(at, which, tail) == [at |-> at, bytes |-> water_patterns[which] \o tail]

Materials ==
    { NoMat,
      MatAt(height_offset + 4, 1, <<98, 108, 117, 101, 0>>),
      MatAt(height_offset + 4, 2, <<98, 0>>),
      MatAt(height_offset + 4, 1, <<129, 97, 117, 0>>),
      MatAt(300, 2, <<49, 50>>),
      MatAt(350, 1, <<49, 50>>),
      MatAt(height_offset + 4, 2, <<32>> \o water_patterns[1] \o <<98, 0>>) }

WaterLens == { 0, height_offset, height_offset + 3, height_offset + 4, 400, 900 }

WaterFiles ==
    { [MkFile(len, <<0, 0, 384>>, 7, hdr) EXCEPT !.water = w, !.mat = m] :
        len \in WaterLens, hdr \in {0, 90}, w \in WaterBytes, m \in Materials }

Envs == [ragged_raises : BOOLEAN, stdout_unicode : BOOLEAN]

(***************************************************************************)
(* Directories.  A directory holds sector files sd<stem>.csdat, listed in  *)
(* the order glob returns them, and atlas images atlas<n>_<layer>.png.     *)
(* A stem is the text between "sd" and ".csdat", a sequence of character   *)
(* codes.  py_int is int(stem) for the stems the model draws (digits and   *)
(* letters): the value of a non-empty run of digits, ValueError otherwise. *)
(***************************************************************************)
RECURSIVE DigitsValue(_)
DigitsValue(s) ==
    IF s = <<>> THEN 0
    ELSE 10 * DigitsValue(SubSeq(s, 1, Len(s) - 1)) + (s[Len(s)] - 48)

py_int(s) ==
    IF s # <<>> /\ \A k \in 1..Len(s) : s[k] \in 48..57
    THEN [ok |-> TRUE, value |-> DigitsValue(s)]
    ELSE [ok |-> FALSE, value |-> 0]

(***************************************************************************)
(* An image is given by its size and the rule of its pixels.  The atlas    *)
(* images the model draws are 130x130, so that a quadrant is 65x65 and     *)
(* Image.resize((65, 65)) returns the quadrant's own pixels.               *)
(***************************************************************************)
ImagePixel(img, y, x) == (img.base + img.dy * y + img.dx * x) % 256

\* "Rotated 180" stands for the combobox entry with the degree sign.
AtlasPatterns ==
    { "Standard [0=TL, 1=TR, 2=BL, 3=BR]",
      "Rotated CW [0=TR, 1=BR, 2=TL, 3=BL]",
      "Rotated CCW [0=BL, 1=TL, 2=BR, 3=TR]",
      "Rotated 180 [0=BR, 1=BL, 2=TR, 3=TL]",
      "Flipped H [0=TR, 1=TL, 2=BR, 3=BL]",
      "Flipped V [0=BL, 1=BR, 2=TL, 3=TR]",
      "By Column [0=TL, 1=BL, 2=TR, 3=BR]",
      "By Column Rev [0=BL, 1=TL, 2=BR, 3=TR]" }

\* Names the combobox does not offer.  The first four hold no key word
\* (the test is case sensitive, and "Rotated" alone is no key word); the
\* last three hold one or two.
UnknownAtlasPatterns ==
    { "", "Diagonal", "standard [0=tl, 1=tr, 2=bl, 3=br]", "Rotated",
      "Rotated CW v2", "Non-Standard By Column", "By Column Reversed" }

(***************************************************************************)
(* get_atlas_subsector_coords tests, in this order, whether each of eight  *)
(* key words occurs in the pattern's name ("key" in pattern).  KeysIn is   *)
(* the set of key words that occur in a name: the name of By Column Rev    *)
(* holds the key word of By Column too.                                    *)
(***************************************************************************)
KeysIn(pattern) ==
    IF pattern = "Standard [0=TL, 1=TR, 2=BL, 3=BR]" THEN {"Standard"}
    ELSE IF pattern = "Rotated CW [0=TR, 1=BR, 2=TL, 3=BL]" THEN {"Rotated CW"}
    ELSE IF pattern = "Rotated CCW [0=BL, 1=TL, 2=BR, 3=TR]" THEN {"Rotated CCW"}
    ELSE IF pattern = "Rotated 180 [0=BR, 1=BL, 2=TR, 3=TL]" THEN {"Rotated 180"}
    ELSE IF pattern = "Flipped H [0=TR, 1=TL, 2=BR, 3=BL]" THEN {"Flipped H"}
    ELSE IF pattern = "Flipped V [0=BL, 1=BR, 2=TL, 3=TR]" THEN {"Flipped V"}
    ELSE IF pattern = "By Column [0=TL, 1=BL, 2=TR, 3=BR]" THEN {"By Column"}
    ELSE IF pattern = "By Column Rev [0=BL, 1=TL, 2=BR, 3=TR]"
    THEN {"By Column Rev", "By Column"}
    ELSE IF pattern = "Rotated CW v2" THEN {"Rotated CW"}
    ELSE IF pattern = "Non-Standard By Column" THEN {"Standard", "By Column"}
    ELSE IF pattern = "By Column Reversed" THEN {"By Column Rev", "By Column"}
    ELSE {}

Contains(key, pattern) == key \in KeysIn(pattern)

\* the quadrant of every sub-sector, were every pattern the standard one
standard_subsector_coords(me, sub_sector, half_h, half_w, height, width) ==
    << <<0, half_h, 0, half_w>>, <<0, half_h, half_w, width>>,
       <<half_h, height, 0, half_w>>, <<half_h, height, half_w, width>> >>[sub_sector + 1]

\* the quadrants, were the last branch the one of By Column
by_column_fallback_coords(me, sub_sector, half_h, half_w, height, width) ==
    LET pattern == me.atlas_subsector_pattern
        quadrants == [ TL |-> <<0, half_h, 0, half_w>>,
                       TR |-> <<0, half_h, half_w, width>>,
                       BL |-> <<half_h, height, 0, half_w>>,
                       BR |-> <<half_h, height, half_w, width>> ]
        mapping ==
            IF Contains("Standard", pattern) THEN <<"TL", "TR", "BL", "BR">>
            ELSE <<"TL", "BL", "TR", "BR">>
    IN  quadrants[mapping[sub_sector + 1]]

\* <<y_start, y_end, x_start, x_end>> of quadrant sub_sector under the pattern
get_atlas_subsector_coords(me, sub_sector, half_h, half_w, height, width) ==
    LET pattern == me.atlas_subsector_pattern
        quadrants == [ TL |-> <<0, half_h, 0, half_w>>,
                       TR |-> <<0, half_h, half_w, width>>,
                       BL |-> <<half_h, height, 0, half_w>>,
                       BR |-> <<half_h, height, half_w, width>> ]
        mapping ==
            IF Contains("Standard", pattern) THEN <<"TL", "TR", "BL", "BR">>
            ELSE IF Contains("Rotated CW", pattern) THEN <<"TR", "BR", "TL", "BL">>
            ELSE IF Contains("Rotated CCW", pattern) THEN <<"BL", "TL", "BR", "TR">>
            ELSE IF Contains("Rotated 180", pattern) THEN <<"BR", "BL", "TR", "TL">>
            ELSE IF Contains("Flipped H", pattern) THEN <<"TR", "TL", "BR", "BL">>
            ELSE IF Contains("Flipped V", pattern) THEN <<"BL", "BR", "TL", "TR">>
            ELSE IF Contains("By Column Rev", pattern) THEN <<"BL", "TL", "BR", "TR">>
            ELSE IF Contains("By Column", pattern) THEN <<"TL", "BL", "TR", "BR">>
            ELSE <<"TL", "TR", "BL", "BR">>
    IN  quadrants[mapping[sub_sector + 1]]

AtlasLayers == {"color", "diffuse", "mask"}

\* the atlas images of the directory for the viewer's layer: atlas number -> image
LayerAtlases(me, dir) ==
    IF me.texture_layer \in AtlasLayers THEN dir.atlases[me.texture_layer]
    ELSE [n \in {} |-> None]

\* print of the "sector -> atlas" sample lines: they hold an arrow character
build_atlas_mapping_raises(atlas_mapping, env) ==
    DOMAIN atlas_mapping # {} /\ ~env.stdout_unicode

build_atlas_mapping(me, dir) ==
    IF me.texture_layer = "shadow"
    THEN [me EXCEPT !.atlas_mapping = [k \in {} |-> None],
                    !.sector_to_path = dir.shadows]
    ELSE LET atlas_numbers == DOMAIN LayerAtlases(me, dir)
             atlas_index(n) == Cardinality({m \in atlas_numbers : m < n})
         IN  [me EXCEPT
                !.sector_to_path = [k \in {} |-> None],
                !.atlas_mapping =
                    [ sector_num \in { 4 * atlas_index(n) + sub :
                                         n \in atlas_numbers, sub \in 0..3 } |->
                        <<CHOOSE n \in atlas_numbers : atlas_index(n) = sector_num \div 4,
                          sector_num % 4>> ]]

load_sector_texture(me, dir, sector_num) ==
    IF me.current_directory = "" THEN None
    ELSE IF me.texture_layer = "shadow"
    THEN IF sector_num \in DOMAIN me.sector_to_path
         THEN LET img == me.sector_to_path[sector_num]
              IN  [img |-> img, coords |-> <<0, img.h, 0, img.w>>]
         ELSE None
    ELSE IF sector_num \notin DOMAIN me.atlas_mapping THEN None
    ELSE LET atlas_num == me.atlas_mapping[sector_num][1]
             sub_sector == me.atlas_mapping[sector_num][2]
         IN  IF atlas_num \notin DOMAIN LayerAtlases(me, dir) THEN None
             ELSE LET img == LayerAtlases(me, dir)[atlas_num]
                  IN  [ img |-> img,
                        coords |-> get_atlas_subsector_coords(
                                       me, sub_sector, img.h \div 2, img.w \div 2,
                                       img.h, img.w) ]

(***************************************************************************)
(* The directories the model browses to.  In Directories the sectors hold  *)
(* sloped terrain and every file is whole; FaultyDirectories have a file   *)
(* that is empty or cut short, or no file at all; in FlatDirectories every *)
(* sector is level (the blend's sums then stay within the model's          *)
(* integers).                                                              *)
(***************************************************************************)
Stem(n) == <<48 + n>>                 \* "0" .. "9"

SlopedFile(n) == MkFile(FullLen, <<130, 1, 300 + 1000 * n>>, 7, 90)

FlatFile(v) == MkFile(FullLen, <<0, 0, HeightDivisor * v>>, 7, 90)

WithWater(f, w, m) == [f EXCEPT !.water = w, !.mat = m]

NoAtlases == [layer \in AtlasLayers |-> [n \in {} |-> None]]

MkDir(name, files) ==
    [name |-> name, files |-> files, atlases |-> NoAtlases, shadows |-> [k \in {} |-> None]]

Directories ==
    { MkDir("full",
            << [stem |-> Stem(0), file |-> SlopedFile(0)],
               [stem |-> Stem(1), file |-> SlopedFile(1)],
               [stem |-> Stem(2), file |-> WithWater(SlopedFile(2), <<0, 0, 128, 63>>,
                                                    MatAt(300, 1, <<98, 108, 117, 101, 0>>))],
               [stem |-> Stem(3), file |-> SlopedFile(3)] >>),
      MkDir("three",
            << [stem |-> Stem(2), file |-> SlopedFile(2)],
               [stem |-> <<120>>, file |-> SlopedFile(3)],        \* sdx.csdat
               [stem |-> Stem(0), file |-> SlopedFile(0)],
               [stem |-> Stem(1), file |-> SlopedFile(1)] >>),
      MkDir("one", << [stem |-> Stem(0), file |-> SlopedFile(0)] >>) }

FaultyDirectories ==
    { MkDir("sound",
            << [stem |-> Stem(0), file |-> SlopedFile(0)],
               [stem |-> Stem(1), file |-> SlopedFile(1)] >>),
      MkDir("empty file",
            << [stem |-> Stem(0), file |-> SlopedFile(0)],
               [stem |-> Stem(1), file |-> MkFile(0, <<0, 0, 0>>, 0, 0)],
               [stem |-> Stem(2), file |-> SlopedFile(2)],
               [stem |-> Stem(3), file |-> SlopedFile(3)] >>),
      MkDir("cut file",
            << [stem |-> Stem(0), file |-> SlopedFile(0)],
               [stem |-> Stem(1), file |-> SlopedFile(1)],
               [stem |-> Stem(2), file |-> SlopedFile(2)],
               [stem |-> Stem(3),
                file |-> MkFile(HeaderBytes + 4 * grid_size + 6, <<1, 259, 40000>>, 7, 90)] >>),
      MkDir("none", << >>) }

FlatDirectories ==
    { MkDir("flat one", << [stem |-> Stem(0), file |-> FlatFile(2)] >>),
      MkDir("flat three",
            << [stem |-> Stem(0), file |-> FlatFile(2)],
               [stem |-> Stem(1), file |-> FlatFile(2)],
               [stem |-> Stem(2), file |-> FlatFile(2)] >>),
      MkDir("flat full",
            << [stem |-> Stem(0), file |-> FlatFile(3)],
               [stem |-> Stem(1), file |-> FlatFile(3)],
               [stem |-> Stem(2), file |-> FlatFile(3)],
               [stem |-> Stem(3), file |-> FlatFile(3)] >>) }

\* atlas<n>_<layer>.png, 130x130, and sd<k>_shadow.dds, 65x65
AtlasImage(base) == [h |-> 2 * grid_size, w |-> 2 * grid_size, base |-> base, dy |-> 1, dx |-> 2]

ShadowImage(base) == [h |-> grid_size, w |-> grid_size, base |-> base, dy |-> 2, dx |-> 1]

WithTextures(dir) ==
    [dir EXCEPT
       !.atlases = [layer \in AtlasLayers |->
                      IF layer = "color" THEN (0 :> AtlasImage(3))
                      ELSE IF layer = "mask" THEN (0 :> AtlasImage(40))
                      ELSE [n \in {} |-> None]],
       !.shadows = (0 :> ShadowImage(7)) @@ (2 :> ShadowImage(90))]

\* level sectors of different heights, with one atlas and two shadow images
TextureDirectories ==
    { WithTextures(MkDir("textured full",
                         << [stem |-> Stem(0), file |-> FlatFile(1)],
                            [stem |-> Stem(1), file |-> FlatFile(2)],
                            [stem |-> Stem(2), file |-> FlatFile(3)],
                            [stem |-> Stem(3), file |-> FlatFile(4)] >>)),
      WithTextures(MkDir("textured two",
                         << [stem |-> Stem(0), file |-> FlatFile(1)],
                            [stem |-> Stem(2), file |-> FlatFile(3)] >>)) }

AllDirectories ==
    Directories \cup FaultyDirectories \cup FlatDirectories \cup TextureDirectories

DirOf(name) == CHOOSE d \in AllDirectories : d.name = name

SectorFiles ==
    UNION { { d.files[k].file : k \in DOMAIN d.files } : d \in AllDirectories }

\* Table(f) is the function f, held as the table of its values.
Table(f) == f @@ <<>>

TableOfRows(a) == Table([y \in DOMAIN a |-> Table(a[y])])

\* load_single_sector and parse_water_from_sector of every file, computed once
DecodedSectors ==
    Table([ f \in SectorFiles, ragged_raises \in BOOLEAN |->
              TableOfRows(load_single_sector(f, ragged_raises)) ])

ParsedWater ==
    Table([ f \in SectorFiles, env \in Envs |-> parse_water_from_sector(f, 0, env) ])

\* The array a sectors_data entry refers to: the result of its decode call.
SectorArray(ref) == DecodedSectors[ref.file, ref.ragged_raises]

\* The array a sectors_textures entry refers to: rows coords[1]..coords[2]-1 and
\* columns coords[3]..coords[4]-1 of the image's array.
CropArray(ref) ==
    [ y \in 1..(ref.coords[2] - ref.coords[1]) |->
        [ x \in 1..(ref.coords[4] - ref.coords[3]) |->
            ImagePixel(ref.img, ref.coords[1] + y - 1, ref.coords[3] + x - 1) ] ]

\* the whole and the four quadrants of every image of the directories
DirectoryImages ==
    UNION { { d.atlases[layer][n] : n \in DOMAIN d.atlases[layer] } :
              d \in AllDirectories, layer \in AtlasLayers }
      \cup UNION { { d.shadows[k] : k \in DOMAIN d.shadows } : d \in AllDirectories }

ImageCrops(img) ==
    { <<0, img.h, 0, img.w>> } \cup
    { <<y, y + img.h \div 2, x, x + img.w \div 2>> :
        y \in {0, img.h \div 2}, x \in {0, img.w \div 2} }

TextureRefs ==
    UNION { { [img |-> img, coords |-> c] : c \in ImageCrops(img) } : img \in DirectoryImages }

\* the arrays of TextureRefs, computed once
CroppedArrays == Table([ ref \in TextureRefs |-> TableOfRows(CropArray(ref)) ])

TextureArray(ref) ==
    IF ref \in DOMAIN CroppedArrays THEN CroppedArrays[ref] ELSE CropArray(ref)

(***************************************************************************)
(* TerrainViewer.__init__.                                                 *)
(***************************************************************************)
NoDict == [k \in {} |-> None]

\* sector_to_path is first assigned by build_atlas_mapping; it is read only
\* after that call, so the empty dict stands for the attribute not yet set.
InitSelf ==
    [ sectors_data |-> NoDict,
      sectors_order |-> <<>>,        \* the keys of sectors_data in insertion order
      water_data |-> NoDict,
      sectors_textures |-> NoDict,
      atlas_mapping |-> NoDict,
      sector_to_path |-> NoDict,
      atlas_subsector_pattern |-> "Standard [0=TL, 1=TR, 2=BL, 3=BR]",
      current_directory |-> "",
      max_sectors |-> 0,
      current_combined_map |-> None,
      map_rotation |-> 270,
      enable_seam_blending |-> FALSE,
      seam_overlap_pixels |-> 2,
      seam_blend_mode |-> "Smooth Feather",
      sector_order_pattern |-> PatVertical,
      apply_pattern_to_heightmap |-> FALSE,
      texture_layer |-> "color",
      sectors_x |-> 8,
      sectors_y |-> 8,
      enable_textures |-> FALSE ]

NoDisplay ==
    [ shown |-> FALSE, raised |-> FALSE, sectors_x |-> 0, sectors_y |-> 0,
      use_seam_blending |-> FALSE, index |-> <<>>,
      displayed_sectors |-> <<>>, missing_sectors |-> <<>>,
      combined_texture |-> None ]

NoCall == [fn |-> "none", done |-> TRUE]

(***************************************************************************)
(* numpy helpers on arrays held as sequences of rows.                      *)
(***************************************************************************)
\* np.ones, for comparison with np.zeros
OnesRow(n) == [x \in 1..n |-> Rat(1, 1)]

ZeroRow(n) == [x \in 1..n |-> Zero]

np_zeros(h, w) == [y \in 1..h |-> ZeroRow(w)]

np_flipud(a) == [r \in 1..Len(a) |-> a[Len(a) + 1 - r]]

(***************************************************************************)
(* update_display, standard grid assembly (the else branch of              *)
(* use_seam_blending).  CellIndex is the pair of indices the loop body     *)
(* computes for one cell.  The loops visit the cells row by row, which is  *)
(* the order of CellIndices.                                               *)
(* combined_map[start_y:end_y, start_x:end_x] = block raises ValueError    *)
(* unless the block is 65x65, and the method then stops where it is:       *)
(* nothing it computed is stored.                                          *)
(***************************************************************************)
\* One index for both mosaics, for comparison: the texture following the
\* heightmap's choice.
CellIndexShared(me, display_row, col) ==
    [ heightmap_sector_index |->
          IF me.apply_pattern_to_heightmap
          THEN get_sector_index_from_position(me, display_row, col,
                                              me.sectors_x, me.sectors_y)
          ELSE (me.sectors_y - 1 - display_row) * me.sectors_x + col,
      texture_sector_index |->
          IF me.apply_pattern_to_heightmap
          THEN get_sector_index_from_position(me, display_row, col,
                                              me.sectors_x, me.sectors_y)
          ELSE (me.sectors_y - 1 - display_row) * me.sectors_x + col ]

CellIndex(me, display_row, col) ==
    [ heightmap_sector_index |->
          IF me.apply_pattern_to_heightmap
          THEN get_sector_index_from_position(me, display_row, col,
                                              me.sectors_x, me.sectors_y)
          ELSE (me.sectors_y - 1 - display_row) * me.sectors_x + col,
      texture_sector_index |->
          get_sector_index_from_position(me, display_row, col,
                                         me.sectors_x, me.sectors_y) ]

CellIndices(me) ==
    [ k \in 1..(me.sectors_x * me.sectors_y) |->
        CellIndex(me, (k - 1) \div me.sectors_x, (k - 1) % me.sectors_x) ]

HeightUnflipped(me) ==
    me.apply_pattern_to_heightmap /\ me.sector_order_pattern = PatVertical

\* Row local (1..65) of the block written at cell (display_row, col).
HeightBlockRow(me, display_row, col, local) ==
    LET i == CellIndex(me, display_row, col).heightmap_sector_index
    IN  IF i \in DOMAIN me.sectors_data
        THEN IF HeightUnflipped(me)
             THEN SectorArray(me.sectors_data[i])[local]
             ELSE np_flipud(SectorArray(me.sectors_data[i]))[local]
        ELSE ZeroRow(grid_size)

RECURSIVE HeightRow(_, _, _, _)
HeightRow(me, display_row, local, ncols) ==
    IF ncols = 0 THEN <<>>
    ELSE HeightRow(me, display_row, local, ncols - 1)
             \o HeightBlockRow(me, display_row, ncols - 1, local)

\* The lists the loops build, given the indices of the cells in loop order.
standard_lists(me, index) ==
    [ raised |-> \E k \in DOMAIN index :
                    /\ index[k].heightmap_sector_index \in DOMAIN me.sectors_data
                    /\ ~IsGrid(SectorArray(
                                  me.sectors_data[index[k].heightmap_sector_index])),
      index |-> index,
      displayed_sectors |->
          SelectSeq([k \in DOMAIN index |-> index[k].heightmap_sector_index],
                    LAMBDA i : i \in DOMAIN me.sectors_data),
      missing_sectors |->
          SelectSeq([k \in DOMAIN index |-> index[k].heightmap_sector_index],
                    LAMBDA i : i \notin DOMAIN me.sectors_data) ]

standard_assembly(me) == standard_lists(me, CellIndices(me))

\* combined_map as the loops leave it
standard_map(me) ==
    [ R \in 1..(me.sectors_y * grid_size) |->
        HeightRow(me, (R - 1) \div grid_size, ((R - 1) % grid_size) + 1, me.sectors_x) ]

(***************************************************************************)
(* Rational arithmetic for the blend.                                      *)
(***************************************************************************)
RatAdd(a, b) == Rat(a[1] * b[2] + b[1] * a[2], a[2] * b[2])

RatScale(a, k) == Rat(a[1] * k, a[2])

RECURSIVE SumRange(_, _, _)
SumRange(f(_), lo, hi) ==
    IF lo > hi THEN 0 ELSE f(lo) + SumRange(f, lo + 1, hi)

RECURSIVE RatSumRange(_, _, _)
RatSumRange(f(_), lo, hi) ==
    IF lo > hi THEN Zero ELSE RatAdd(f(lo), RatSumRange(f, lo + 1, hi))

RECURSIVE LCMRange(_, _, _)
LCMRange(f(_), lo, hi) ==
    IF lo > hi THEN 1
    ELSE LET m == LCMRange(f, lo + 1, hi)
         IN  (f(lo) \div GCD(f(lo), m)) * m

(***************************************************************************)
(* apply_seam_blending for the heightmap (is_texture = False).             *)
(*                                                                         *)
(* blend_weight is the weight the feathering loop computes for edge_pixel, *)
(* an exact rational.  The loop multiplies column edge_pixel, column       *)
(* 64 - edge_pixel, row edge_pixel and row 64 - edge_pixel of the mask by  *)
(* it, so the mask is sector_weight[y][x] = EdgeFactor(y) * EdgeFactor(x); *)
(* with overlap <= 32 a row or column is touched by one edge_pixel at      *)
(* most.  The factors are held as numerators over the common denominator   *)
(* WeightDen of the overlap's weights; the denominator cancels when the    *)
(* accumulated values are divided by the accumulated weights.              *)
(***************************************************************************)
BlendModes == {"Linear", "Smooth Feather", "Gaussian"}

\* The ramp taken one pixel further in, for comparison.
blend_weight_from_one(blend_mode, edge_pixel, overlap) ==
    LET e == edge_pixel + 1
        o == overlap
    IN  IF blend_mode = "Smooth Feather"
        THEN Rat(e * e * (3 * o - 2 * e), o * o * o)
        ELSE IF blend_mode = "Gaussian"
        THEN Rat(e * e * e * (e * (6 * e - 15 * o) + 10 * o * o), o * o * o * o * o)
        ELSE Rat(e, o)

blend_weight(blend_mode, edge_pixel, overlap) ==
    LET e == edge_pixel
        o == overlap
    IN  IF blend_mode = "Smooth Feather"
        THEN Rat(e * e * (3 * o - 2 * e), o * o * o)
        ELSE IF blend_mode = "Gaussian"
        THEN Rat(e * e * e * (e * (6 * e - 15 * o) + 10 * o * o), o * o * o * o * o)
        ELSE Rat(e, o)

WeightDen(blend_mode, overlap) ==
    LET den(e) == blend_weight(blend_mode, e, overlap)[2]
    IN  LCMRange(den, 0, overlap - 1)

EdgeFactor(blend_mode, overlap, i) ==
    LET d == WeightDen(blend_mode, overlap)
        num(e) == blend_weight(blend_mode, e, overlap)[1]
                      * (d \div blend_weight(blend_mode, e, overlap)[2])
    IN  IF i < overlap THEN num(i)
        ELSE IF grid_size - 1 - i < overlap THEN num(grid_size - 1 - i)
        ELSE d

(***************************************************************************)
(* sector_weight[y][x] as the feathering loop leaves it: the mask starts   *)
(* at 1 and each turn of the loop multiplies column edge_pixel, column     *)
(* -(edge_pixel + 1), row edge_pixel and row -(edge_pixel + 1) by the      *)
(* turn's weight.                                                          *)
(***************************************************************************)
RatMul(a, b) == Rat(a[1] * b[1], a[2] * b[2])

Scaled(w, hit, weight) == IF hit THEN RatMul(w, weight) ELSE w

feather_step(w, weight, y, x, edge_pixel) ==
    Scaled(Scaled(Scaled(Scaled(w, x = edge_pixel, weight),
                         x = grid_size - (edge_pixel + 1), weight),
                  y = edge_pixel, weight),
           y = grid_size - (edge_pixel + 1), weight)

RECURSIVE feather(_, _, _, _, _, _)
feather(w, blend_mode, overlap, y, x, edge_pixel) ==
    IF edge_pixel >= overlap THEN w
    ELSE feather(feather_step(w, blend_weight(blend_mode, edge_pixel, overlap),
                              y, x, edge_pixel),
                 blend_mode, overlap, y, x, edge_pixel + 1)

sector_weight(blend_mode, overlap, y, x) ==
    feather(Rat(1, 1), blend_mode, overlap, y, x, 0)

\* The overlaps the model sets the spinbox to (its range is 1..10).
Overlaps == {1, 2, 5, 10}

EdgeFactors ==
    Table([ blend_mode \in BlendModes, overlap \in Overlaps |->
              Table([ i \in 0..(grid_size - 1) |-> EdgeFactor(blend_mode, overlap, i) ]) ])

(***************************************************************************)
(* The accumulation loop adds, for each cell (display_row, col) whose      *)
(* sector is in sectors_dict, data * sector_weight to the 65x65 window of  *)
(* combined at (display_row * effective_sector_size,                       *)
(* col * effective_sector_size) and sector_weight to the same window of    *)
(* weights; the result is combined / max(weights, 1e-10).  Pixel (y, x) of *)
(* the output therefore sums over the cells whose window holds it: the     *)
(* rows first_cover..last_cover of cells in each direction.  A sector      *)
(* array that is not 65x65 cannot be multiplied by the mask: the method    *)
(* raises.                                                                 *)
(***************************************************************************)
FirstCover(p, effective_sector_size) ==
    IF p < grid_size THEN 0
    ELSE (p - grid_size) \div effective_sector_size + 1

\* the last cell whose window would hold p were the cells 65 apart
LastCoverUnshifted(p, effective_sector_size, n) == Min(n - 1, p \div grid_size)

LastCover(p, effective_sector_size, n) == Min(n - 1, p \div effective_sector_size)

\* sector_data * sector_weight on an array that is not 65x65
seam_blending_raises(me, sectors_dict, sectors_x, sectors_y) ==
    /\ me.seam_overlap_pixels >= 1
    /\ \E r \in 0..(sectors_y - 1), c \in 0..(sectors_x - 1) :
          /\ get_sector_index_from_position(me, r, c, sectors_x, sectors_y)
                 \in DOMAIN sectors_dict
          /\ ~IsGrid(sectors_dict[get_sector_index_from_position(
                                      me, r, c, sectors_x, sectors_y)])

apply_seam_blending(me, sectors_dict, sectors_x, sectors_y, is_texture) ==
    LET overlap == me.seam_overlap_pixels
        blend_mode == me.seam_blend_mode
        effective_sector_size == grid_size - overlap
        total_width == sectors_x * effective_sector_size + overlap
        total_height == sectors_y * effective_sector_size + overlap
        current_pattern == me.sector_order_pattern
        sector_index(r, c) == get_sector_index_from_position(me, r, c, sectors_x, sectors_y)
        present(r, c) == sector_index(r, c) \in DOMAIN sectors_dict
        flip == is_texture /\ current_pattern # PatVertical
        \* sector_data[ly][lx] (0-based) after the flip, as a rational
        sector_data(r, c, ly, lx) ==
            LET a == sectors_dict[sector_index(r, c)]
                row == IF flip THEN np_flipud(a)[ly + 1] ELSE a[ly + 1]
            IN  IF is_texture THEN <<row[lx + 1], 1>> ELSE row[lx + 1]
        ef == EdgeFactors[blend_mode, overlap]
        pixel(y, x) ==
            LET r0 == FirstCover(y, effective_sector_size)
                r1 == LastCover(y, effective_sector_size, sectors_y)
                c0 == FirstCover(x, effective_sector_size)
                c1 == LastCover(x, effective_sector_size, sectors_x)
                w(r, c) == IF present(r, c)
                           THEN ef[y - r * effective_sector_size]
                                    * ef[x - c * effective_sector_size]
                           ELSE 0
                v(r, c) == IF present(r, c)
                           THEN RatScale(sector_data(r, c, y - r * effective_sector_size,
                                                     x - c * effective_sector_size),
                                         w(r, c))
                           ELSE Zero
                wrow(r) == LET wc(c) == w(r, c) IN SumRange(wc, c0, c1)
                vrow(r) == LET vc(c) == v(r, c) IN RatSumRange(vc, c0, c1)
                weights == SumRange(wrow, r0, r1)
                combined == RatSumRange(vrow, r0, r1)
                q == IF weights = 0 THEN Zero
                     ELSE Rat(combined[1], combined[2] * weights)
            IN  IF is_texture
                THEN Max(0, Min(255, q[1] \div q[2]))   \* np.clip, astype(uint8)
                ELSE q
    IN  IF overlap < 1
        THEN [raised |-> FALSE, combined |-> None]
        ELSE IF seam_blending_raises(me, sectors_dict, sectors_x, sectors_y)
        THEN [raised |-> TRUE, combined |-> None]
        ELSE [raised |-> FALSE,
              combined |-> [ y \in 1..total_height |->
                               [ x \in 1..total_width |-> pixel(y - 1, x - 1) ] ] ]

(***************************************************************************)
(* A texture is a 65x65 array of texels; a texel is one number 0..255      *)
(* standing for the RGB triple with that value in each channel.            *)
(* np_rot90(m, k) turns the array counter-clockwise k times.               *)
(***************************************************************************)
TexelRow(n) == [x \in 1..n |-> 0]

np_rot90(m, k) ==
    LET h == Len(m)
        w == IF h = 0 THEN 0 ELSE Len(m[1])
    IN  IF k = 1 THEN [i \in 1..w |-> [j \in 1..h |-> m[j][w + 1 - i]]]
        ELSE IF k = 2 THEN [i \in 1..h |-> [j \in 1..w |-> m[h + 1 - i][w + 1 - j]]]
        ELSE [i \in 1..w |-> [j \in 1..h |-> m[h + 1 - j][i]]]

TextureBlockRow(me, display_row, col, local) ==
    LET ci == CellIndex(me, display_row, col)
    IN  IF /\ ci.heightmap_sector_index \in DOMAIN me.sectors_data
           /\ ci.texture_sector_index \in DOMAIN me.sectors_textures
        THEN IF me.texture_layer = "shadow" \/ me.sector_order_pattern = PatVertical
             THEN TextureArray(me.sectors_textures[ci.texture_sector_index])[local]
             ELSE np_flipud(TextureArray(me.sectors_textures[ci.texture_sector_index]))[local]
        ELSE TexelRow(grid_size)

RECURSIVE TextureRow(_, _, _, _)
TextureRow(me, display_row, local, ncols) ==
    IF ncols = 0 THEN <<>>
    ELSE TextureRow(me, display_row, local, ncols - 1)
             \o TextureBlockRow(me, display_row, ncols - 1, local)

standard_texture(me) ==
    [ R \in 1..(me.sectors_y * grid_size) |->
        TextureRow(me, (R - 1) \div grid_size, ((R - 1) % grid_size) + 1, me.sectors_x) ]

(***************************************************************************)
(* update_display, up to the display_info label.  The result is the viewer *)
(* after the call and what the call showed:                                *)
(*   raised             the call ended in an exception (nothing stored)    *)
(*   index              standard path: the indices of each cell, in loop   *)
(*                      order                                              *)
(*   displayed_sectors, missing_sectors   the two lists the label counts   *)
(*   combined_texture   the inputs of the texture mosaic, or None          *)
(* A call made while sectors_data is empty returns at once.                *)
(***************************************************************************)
rotate_texture(me, texture) ==
    IF texture = None \/ me.map_rotation = 0 THEN texture
    ELSE IF me.map_rotation = 90 THEN np_rot90(texture, 3)
    ELSE IF me.map_rotation = 180 THEN np_rot90(texture, 2)
    ELSE IF me.map_rotation = 270 THEN np_rot90(texture, 1)
    ELSE texture

UseSeamBlending(me) == me.enable_seam_blending /\ me.seam_overlap_pixels > 0

\* flipped_heightmap_dict, or sectors_data itself when the pattern is applied
heightmap_dict(me) ==
    [ k \in DOMAIN me.sectors_data |->
        IF me.apply_pattern_to_heightmap THEN SectorArray(me.sectors_data[k])
        ELSE np_flipud(SectorArray(me.sectors_data[k])) ]

textures_dict(me) ==
    [k \in DOMAIN me.sectors_textures |-> TextureArray(me.sectors_textures[k])]

seam_heights(me) ==
    apply_seam_blending(me, heightmap_dict(me), me.sectors_x, me.sectors_y, FALSE)

seam_texture(me) ==
    apply_seam_blending(me, textures_dict(me), me.sectors_x, me.sectors_y, TRUE)

\* The fields update_display builds the two mosaics from.
MosaicInputs(me) ==
    [ sectors_data |-> me.sectors_data,
      sectors_textures |-> me.sectors_textures,
      sectors_x |-> me.sectors_x,
      sectors_y |-> me.sectors_y,
      sector_order_pattern |-> me.sector_order_pattern,
      apply_pattern_to_heightmap |-> me.apply_pattern_to_heightmap,
      enable_seam_blending |-> me.enable_seam_blending,
      seam_overlap_pixels |-> me.seam_overlap_pixels,
      seam_blend_mode |-> me.seam_blend_mode,
      texture_layer |-> me.texture_layer,
      map_rotation |-> me.map_rotation ]

\* the height mosaic, were it turned with the texture
rotated_map(m) ==
    rotate_texture(m, IF UseSeamBlending(m) THEN seam_heights(m).combined
                      ELSE standard_map(m))

\* The height mosaic and the (rotated) texture mosaic built from inputs m.
combined_map(m) ==
    IF UseSeamBlending(m) THEN seam_heights(m).combined
    ELSE standard_map(m)

combined_texture(m) ==
    rotate_texture(m, IF UseSeamBlending(m) THEN seam_texture(m).combined
                      ELSE standard_texture(m))

HasTexture(me) == me.enable_textures /\ DOMAIN me.sectors_textures # {}

update_display_raises(me) ==
    IF UseSeamBlending(me)
    THEN \/ seam_blending_raises(me, heightmap_dict(me), me.sectors_x, me.sectors_y)
         \/ /\ HasTexture(me)
            /\ seam_blending_raises(me, textures_dict(me), me.sectors_x, me.sectors_y)
    ELSE standard_assembly(me).raised

display_info(me, use_seam_blending, has_texture, std) ==
    [ shown |-> TRUE, raised |-> FALSE,
      sectors_x |-> me.sectors_x, sectors_y |-> me.sectors_y,
      use_seam_blending |-> use_seam_blending,
      index |-> IF use_seam_blending THEN <<>> ELSE std.index,
      displayed_sectors |-> IF use_seam_blending THEN me.sectors_order
                            ELSE std.displayed_sectors,
      missing_sectors |-> IF use_seam_blending THEN <<>> ELSE std.missing_sectors,
      combined_texture |-> IF has_texture THEN MosaicInputs(me) ELSE None ]

\* update_display, were it to keep a mosaic once stored
update_display_once(me, disp) ==
    IF DOMAIN me.sectors_data = {} \/ me.current_combined_map # None
    THEN [self |-> me, display |-> disp]
    ELSE IF update_display_raises(me)
    THEN [self |-> me, display |-> [disp EXCEPT !.raised = TRUE]]
    ELSE [ self |-> [me EXCEPT !.current_combined_map = MosaicInputs(me)],
           display |-> display_info(me, UseSeamBlending(me), HasTexture(me),
                                    standard_assembly(me)) ]

update_display(me, disp) ==
    IF DOMAIN me.sectors_data = {}
    THEN [self |-> me, display |-> disp]
    ELSE IF update_display_raises(me)
    THEN [self |-> me, display |-> [disp EXCEPT !.raised = TRUE]]
    ELSE [ self |-> [me EXCEPT !.current_combined_map = MosaicInputs(me)],
           display |-> display_info(me, UseSeamBlending(me), HasTexture(me),
                                    standard_assembly(me)) ]

(***************************************************************************)
(* load_sectors.  LoadFile is one turn of the loop over the files; st      *)
(* holds the viewer and the loop's counters.  A file whose stem is not a   *)
(* number, or whose decode returned None, is passed over.  The check-mark  *)
(* line printed for a sector with water raises UnicodeEncodeError, a       *)
(* ValueError, on a stream that encodes ASCII only: the except clause      *)
(* then goes to the next file without loading the sector's texture.        *)
(***************************************************************************)
DictSet(d, k, v) == [x \in DOMAIN d \cup {k} |-> IF x = k THEN v ELSE d[x]]

\* the sector, its water record and the loop's counters
StoreSector(st, entry, env, sector_num, water) ==
    [ me |-> [st.me EXCEPT
                !.sectors_data = DictSet(@, sector_num,
                                         [file |-> entry.file,
                                          ragged_raises |-> env.ragged_raises]),
                !.sectors_order = IF sector_num \in DOMAIN st.me.sectors_data
                                  THEN @ ELSE Append(@, sector_num),
                !.water_data = DictSet(@, sector_num, water)],
      sector_numbers |-> Append(st.sector_numbers, sector_num),
      loaded_count |-> st.loaded_count + 1,
      water_count |-> IF water.has_water THEN st.water_count + 1 ELSE st.water_count ]

StoreTexture(st, sector_num, texture) ==
    IF st.me.enable_textures /\ texture # None
    THEN [st EXCEPT !.me.sectors_textures = DictSet(@, sector_num, texture)]
    ELSE st

\* the check-mark print, then the texture
AfterStore(st, dir, env, sector_num, water) ==
    IF water.has_water /\ ~env.stdout_unicode THEN st
    ELSE StoreTexture(st, sector_num, load_sector_texture(st.me, dir, sector_num))

LoadSector(st, entry, dir, env, sector_num, water) ==
    AfterStore(StoreSector(st, entry, env, sector_num, water), dir, env, sector_num, water)

LoadFile(st, entry, dir, env) ==
    IF ~py_int(entry.stem).ok THEN st
    ELSE IF DecodedSectors[entry.file, env.ragged_raises] = None THEN st
    ELSE LoadSector(st, entry, dir, env, py_int(entry.stem).value,
                    [ParsedWater[entry.file, env] EXCEPT
                       !.sector_num = py_int(entry.stem).value])

RECURSIVE LoadFiles(_, _, _, _)
LoadFiles(st, dir, env, k) ==
    IF k > Len(dir.files) THEN st
    ELSE LoadFiles(LoadFile(st, dir.files[k], dir, env), dir, env, k + 1)

SeqMax(q) == CHOOSE m \in {q[k] : k \in DOMAIN q} : \A k \in DOMAIN q : q[k] <= m

\* math.ceil(math.sqrt(n)) and math.ceil(n / k)
CeilSqrt(n) == CHOOSE k \in 0..n : k * k >= n /\ (k = 0 \/ (k - 1) * (k - 1) < n)

CeilDiv(n, k) == (n + k - 1) \div k

(***************************************************************************)
(* The water summary printed after the loop names each water sector's      *)
(* material path; that print is outside any try.  Writing sectors_x and    *)
(* sectors_y runs their trace, on_value_change, which calls update_display *)
(* (Tk reports an exception of the callback and goes on).                  *)
(***************************************************************************)
summary_raises(me, env) ==
    \E k \in DOMAIN me.water_data :
        me.water_data[k].has_water /\ print_raises(me.water_data[k].material_path, env)

on_value_change(me, disp) == update_display(me, disp)

Shows(me, disp) == [self |-> me, display |-> disp]

\* self.sectors_x.set(n), self.sectors_y.set(n) and a call of update_display,
\* each taken from the viewer and display r that the step before left
set_sectors_x(r, n) == on_value_change([r.self EXCEPT !.sectors_x = n], r.display)

set_sectors_y(r, n) == on_value_change([r.self EXCEPT !.sectors_y = n], r.display)

then_update_display(r) == update_display(r.self, r.display)

\* max_sectors and the suggested grid size
suggest_grid(me, disp, loaded_count) ==
    IF CeilSqrt(loaded_count) <= 100
    THEN set_sectors_y(set_sectors_x(Shows(me, disp), CeilSqrt(loaded_count)),
                       CeilDiv(loaded_count, CeilSqrt(loaded_count)))
    ELSE Shows(me, disp)

\* load_sectors after the loop over the files
after_loading(st, disp, env) ==
    IF summary_raises(st.me, env)
    THEN Shows(st.me, disp)
    ELSE then_update_display(
             IF st.sector_numbers = <<>> THEN Shows(st.me, disp)
             ELSE suggest_grid([st.me EXCEPT !.max_sectors = SeqMax(st.sector_numbers) + 1],
                               disp, st.loaded_count))

\* load_sectors after build_atlas_mapping
load_files(mapped, dir, disp, env) ==
    IF build_atlas_mapping_raises(mapped.atlas_mapping, env)
    THEN Shows(mapped, disp)
    ELSE after_loading(
             LoadFiles([me |-> [mapped EXCEPT !.sectors_data = NoDict,
                                              !.sectors_order = <<>>,
                                              !.water_data = NoDict,
                                              !.sectors_textures = NoDict],
                        loaded_count |-> 0, water_count |-> 0,
                        sector_numbers |-> <<>>], dir, env, 1),
             disp, env)

load_sectors(me, disp, env) ==
    IF me.current_directory = ""
    THEN Shows(me, disp)
    ELSE load_files(build_atlas_mapping(me, DirOf(me.current_directory)),
                    DirOf(me.current_directory), disp, env)

(***************************************************************************)
(* reload_textures: the textures of the loaded sectors are loaded again    *)
(* for the layer and the atlas pattern now selected, with the atlas        *)
(* mapping and the shadow paths the last load_sectors left.                *)
(***************************************************************************)
reloaded_textures(me, dir) ==
    [ sector_num \in { k \in DOMAIN me.sectors_data :
                         load_sector_texture(me, dir, k) # None } |->
        load_sector_texture(me, dir, sector_num) ]

reload_textures(me, disp) ==
    IF me.current_directory = "" \/ ~me.enable_textures
    THEN Shows(me, disp)
    ELSE update_display(
             [me EXCEPT !.sectors_textures =
                            reloaded_textures(me, DirOf(me.current_directory))],
             disp)

(***************************************************************************)
(* export_heightmap.  file_path is the answer of the save dialog, "" when  *)
(* it was cancelled.  In the grayscale branch the local variable mode is   *)
(* assigned only next to the scaling, in the branch max_height !=          *)
(* min_height; Image.fromarray(scaled_data, mode=mode) reads it in both    *)
(* branches, and reading a local that was never assigned raises            *)
(* UnboundLocalError.  Image.save takes the format from the extension and  *)
(* raises ValueError on one it does not know.  cm.get_cmap exists in some  *)
(* matplotlib releases and not in others: cmap_ok says which is installed. *)
(* Every exception ends in the "Export Error" box.  The result names the   *)
(* box shown and, for a written image, its mode, the factor of the scaling *)
(* and the two heights scaled between.                                     *)
(***************************************************************************)
HeightScales == {"8-bit (0-255)", "16-bit (0-65535)"}

ColorModes == {"Grayscale", "Terrain Colors"}

\* the values of the array
SamplesOf(height_data) ==
    UNION { { row[x] : x \in DOMAIN row } :
              row \in { height_data[y] : y \in DOMAIN height_data } }

RatLeq(a, b) == a[1] * b[2] <= b[1] * a[2]

np_min(samples) == CHOOSE v \in samples : \A u \in samples : RatLeq(v, u)

np_max(samples) == CHOOSE v \in samples : \A u \in samples : RatLeq(u, v)

image_save_raises(file_path) == file_path \notin {"map.png", "map.tiff"}

ExportOutcome(outcome, mode, factor, min_height, max_height) ==
    [ outcome |-> outcome, mode |-> mode, factor |-> factor,
      min_height |-> min_height, max_height |-> max_height ]

NoExport(outcome) == ExportOutcome(outcome, "", 0, Zero, Zero)

export_grayscale(file_path, is_16bit, min_height, max_height) ==
    IF max_height = min_height
    THEN NoExport("Export Error")                \* mode was never assigned
    ELSE IF image_save_raises(file_path) THEN NoExport("Export Error")
    ELSE ExportOutcome("Export Successful",
                       IF is_16bit THEN "I;16" ELSE "L",
                       IF is_16bit THEN 65535 ELSE 255, min_height, max_height)

export_terrain_colors(file_path, cmap_ok, min_height, max_height) ==
    IF ~cmap_ok \/ image_save_raises(file_path) THEN NoExport("Export Error")
    ELSE ExportOutcome("Export Successful", "RGB", 255, min_height, max_height)

\* the values the model gives the sectors_x and sectors_y sliders
SectorCounts == 1..MaxSectors

\* np.min(height_data) and np.max(height_data)
height_range(height_data) ==
    LET samples == SamplesOf(height_data)
    IN  [min_height |-> np_min(samples), max_height |-> np_max(samples)]

\* the image written for height data of the given range
export_image(file_path, is_16bit, color_mode, cmap_ok, range) ==
    IF color_mode = "Terrain Colors"
    THEN export_terrain_colors(file_path, cmap_ok, range.min_height, range.max_height)
    ELSE export_grayscale(file_path, is_16bit, range.min_height, range.max_height)

export_heightmap(me, file_path, height_scale, color_mode, cmap_ok) ==
    IF me.current_combined_map = None THEN NoExport("No Data")
    ELSE IF file_path = "" THEN NoExport("")
    ELSE export_image(file_path, height_scale = "16-bit (0-65535)", color_mode, cmap_ok,
                      height_range(combined_map(me.current_combined_map)))

\* scaled_data[y][x] of a written grayscale image: astype truncates
scaled_data(ret, height) ==
    IF ret.max_height = ret.min_height THEN 0
    ELSE ((height[1] * ret.min_height[2] - ret.min_height[1] * height[2])
              * ret.max_height[2] * ret.factor)
         \div ((ret.max_height[1] * ret.min_height[2]
                   - ret.min_height[1] * ret.max_height[2]) * height[2])

(***************************************************************************)
(* The viewer's event handlers.  Each is the callback Tk runs for one user *)
(* gesture: the widget writes its variable, then the bound command runs.   *)
(* SectorCounts and ViewerPatterns are the values the model gives the      *)
(* sliders and the pattern combobox.                                       *)
(***************************************************************************)
ViewerPatterns ==
    { PatVertical, PatHorizontal, PatNoSwap, PatSwap03,
      "Bottom-Left Sequential", "Top-Left by Column" }

Shown(r) ==
    /\ self' = r.self
    /\ display' = r.display
    /\ UNCHANGED <<call, platform>>

browse_directory(directory) ==
    Shown(load_sectors([self EXCEPT !.current_directory = directory], display, platform))

Refresh ==
    /\ self.current_directory # ""
    /\ Shown(load_sectors(self, display, platform))

SetSectorsX(n) ==
    /\ n # self.sectors_x
    /\ Shown(on_value_change([self EXCEPT !.sectors_x = n], display))

SetSectorsY(n) ==
    /\ n # self.sectors_y
    /\ Shown(on_value_change([self EXCEPT !.sectors_y = n], display))

SelectOrderPattern(pattern) ==
    /\ pattern # self.sector_order_pattern
    /\ Shown(update_display([self EXCEPT !.sector_order_pattern = pattern], display))

ToggleApplyPattern ==
    Shown(update_display(
              [self EXCEPT !.apply_pattern_to_heightmap = ~self.apply_pattern_to_heightmap],
              display))

ToggleSeamBlending ==
    Shown(update_display(
              [self EXCEPT !.enable_seam_blending = ~self.enable_seam_blending], display))

on_blend_setting_changed(me, disp) == update_display(me, disp)

SetSeamOverlap(overlap) ==
    /\ overlap # self.seam_overlap_pixels
    /\ Shown(on_blend_setting_changed([self EXCEPT !.seam_overlap_pixels = overlap], display))

SelectBlendMode(blend_mode) ==
    /\ blend_mode # self.seam_blend_mode
    /\ Shown(on_blend_setting_changed([self EXCEPT !.seam_blend_mode = blend_mode], display))

\* the "Show Textures" checkbutton: command=self.load_sectors
ToggleTextures ==
    Shown(load_sectors([self EXCEPT !.enable_textures = ~self.enable_textures],
                       display, platform))

Rotations == {0, 90, 180, 270}

\* the rotation radiobuttons: command=self.update_display
SetRotation(rotation) ==
    /\ rotation # self.map_rotation
    /\ Shown(update_display([self EXCEPT !.map_rotation = rotation], display))

\* the layer combobox and the atlas arrangement combobox: reload_textures
SelectLayer(layer) ==
    /\ layer # self.texture_layer
    /\ Shown(reload_textures([self EXCEPT !.texture_layer = layer], display))

SelectAtlasPattern(pattern) ==
    /\ pattern # self.atlas_subsector_pattern
    /\ Shown(reload_textures([self EXCEPT !.atlas_subsector_pattern = pattern], display))

\* the "Export Heightmap" button, with the two export comboboxes as set
ExportPaths == {"", "map.png", "map.dat"}

ExportHeightmap(file_path, height_scale, color_mode, cmap_ok) ==
    /\ call' = [ fn |-> "export_heightmap", done |-> TRUE,
                 file_path |-> file_path, height_scale |-> height_scale,
                 color_mode |-> color_mode,
                 height_data |-> self.current_combined_map,
                 ret |-> export_heightmap(self, file_path, height_scale,
                                          color_mode, cmap_ok) ]
    /\ UNCHANGED <<self, display, platform>>

(***************************************************************************)
(* The viewer with seam blending left off: directories, grid size,         *)
(* ordering pattern and the apply-to-heightmap toggle.                     *)
(***************************************************************************)
Init == self = InitSelf /\ display = NoDisplay /\ call = NoCall /\ platform \in Envs

Next ==
    \/ \E d \in Directories : browse_directory(d.name)
    \/ Refresh
    \/ \E n \in SectorCounts : SetSectorsX(n)
    \/ \E n \in SectorCounts : SetSectorsY(n)
    \/ \E p \in ViewerPatterns : SelectOrderPattern(p)
    \/ ToggleApplyPattern

Spec == Init /\ [][Next]_vars

(***************************************************************************)
(* The viewer on level terrain with the seam blending controls.            *)
(***************************************************************************)
NextBlend ==
    \/ \E d \in FlatDirectories : browse_directory(d.name)
    \/ ToggleSeamBlending
    \/ \E o \in Overlaps : SetSeamOverlap(o)
    \/ \E m \in BlendModes : SelectBlendMode(m)
    \/ ToggleApplyPattern

SpecBlend == Init /\ [][NextBlend]_vars

(***************************************************************************)
(* The viewer with textures: level sectors of different heights, an atlas, *)
(* the texture checkbutton, the rotation buttons and the seam controls.    *)
(***************************************************************************)
TexturePatterns == { PatVertical, "Bottom-Left Sequential" }

TextureOverlaps == {2, 5}

\* every sector file of these directories is whole: the decode does not
\* depend on how numpy treats ragged rows
InitTexture == Init /\ ~platform.ragged_raises

NextTexture ==
    \/ \E d \in TextureDirectories : browse_directory(d.name)
    \/ ToggleTextures
    \/ \E r \in Rotations : SetRotation(r)
    \/ \E n \in SectorCounts : SetSectorsX(n)
    \/ \E p \in TexturePatterns : SelectOrderPattern(p)
    \/ ToggleSeamBlending
    \/ \E o \in TextureOverlaps : SetSeamOverlap(o)

SpecTexture == InitTexture /\ [][NextTexture]_vars

(***************************************************************************)
(* The viewer with textures and the two comboboxes that reload them.       *)
(***************************************************************************)
Layers == {"color", "shadow"}

ReloadPatterns ==
    { "Standard [0=TL, 1=TR, 2=BL, 3=BR]", "Flipped V [0=BL, 1=BR, 2=TL, 3=TR]" }

NextLayer ==
    \/ \E d \in TextureDirectories : browse_directory(d.name)
    \/ Refresh
    \/ ToggleTextures
    \/ \E l \in Layers : SelectLayer(l)
    \/ \E p \in ReloadPatterns : SelectAtlasPattern(p)
    \/ \E p \in TexturePatterns : SelectOrderPattern(p)
    \/ ToggleSeamBlending

SpecLayer == InitTexture /\ [][NextLayer]_vars

(***************************************************************************)
(* The viewer on level terrain with the export button.                     *)
(***************************************************************************)
InitExport == Init /\ ~platform.ragged_raises /\ platform.stdout_unicode

NextExport ==
    \/ \E d \in FlatDirectories : browse_directory(d.name)
    \/ \E n \in SectorCounts : SetSectorsX(n)
    \/ \E file_path \in ExportPaths, height_scale \in HeightScales,
          color_mode \in ColorModes, cmap_ok \in BOOLEAN :
            ExportHeightmap(file_path, height_scale, color_mode, cmap_ok)

SpecExport == InitExport /\ [][NextExport]_vars

(***************************************************************************)
(* The viewer on directories that hold an undecodable file.                *)
(***************************************************************************)
NextFaulty ==
    \/ \E d \in FaultyDirectories : browse_directory(d.name)
    \/ Refresh
    \/ \E n \in SectorCounts : SetSectorsX(n)
    \/ \E n \in SectorCounts : SetSectorsY(n)
    \/ ToggleApplyPattern
    \/ ToggleSeamBlending

SpecFaulty == Init /\ [][NextFaulty]_vars

(***************************************************************************)
(* Direct calls of the decoder and of the water parser: the initial state  *)
(* holds the arguments, the call adds the result.                          *)
(***************************************************************************)
DecodeCalls ==
    { [fn |-> "load_single_sector", file |-> f, done |-> FALSE, ret |-> None] :
        f \in ProbeFiles }
    \cup
    { [fn |-> "parse_water_from_sector", file |-> f, done |-> FALSE, ret |-> None] :
        f \in WaterFiles }

CallLoadSingleSector ==
    /\ call.fn = "load_single_sector" /\ ~call.done
    /\ call' = [call EXCEPT !.done = TRUE,
                            !.ret = load_single_sector(call.file, platform.ragged_raises)]
    /\ UNCHANGED <<self, display, platform>>

CallParseWater ==
    /\ call.fn = "parse_water_from_sector" /\ ~call.done
    /\ call' = [call EXCEPT !.done = TRUE,
                            !.ret = parse_water_from_sector(call.file, 0, platform)]
    /\ UNCHANGED <<self, display, platform>>

\* the encoding plays no part in the decoder, nor numpy in the water parser
InitDecode ==
    /\ self = InitSelf /\ display = NoDisplay
    /\ call \in DecodeCalls
    /\ platform \in Envs
    /\ call.fn = "load_single_sector" => platform.stdout_unicode
    /\ call.fn = "parse_water_from_sector" => platform.ragged_raises
NextDecode == CallLoadSingleSector \/ CallParseWater
SpecDecode == InitDecode /\ [][NextDecode]_vars

(***************************************************************************)
(* Direct calls of the ordering resolver.  The pattern is the viewer's     *)
(* sector_order_pattern; the combobox offers the ten names, and a foreign  *)
(* name stands for any other value of the variable.                        *)
(***************************************************************************)
OrderCalls ==
    { [fn |-> "get_sector_index_from_position", sectors_x |-> sx, sectors_y |-> sy,
       display_row |-> r, col |-> c, done |-> FALSE, ret |-> -1] :
        sx \in 1..MaxProbeSectors, sy \in 1..MaxProbeSectors,
        r \in 0..MaxProbeSectors - 1, c \in 0..MaxProbeSectors - 1 }

CallGetSectorIndex ==
    /\ call.fn = "get_sector_index_from_position" /\ ~call.done
    /\ call' = [call EXCEPT
                  !.done = TRUE,
                  !.ret = get_sector_index_from_position(
                              self, call.display_row, call.col,
                              call.sectors_x, call.sectors_y)]
    /\ UNCHANGED <<self, display, platform>>

InitOrder ==
    /\ \E p \in OrderPatterns \cup UnknownPatterns :
           self = [InitSelf EXCEPT !.sector_order_pattern = p]
    /\ display = NoDisplay
    /\ call \in { c \in OrderCalls : c.display_row < c.sectors_y /\ c.col < c.sectors_x }
    /\ platform = [ragged_raises |-> TRUE, stdout_unicode |-> TRUE]
NextOrder == CallGetSectorIndex
SpecOrder == InitOrder /\ [][NextOrder]_vars

(***************************************************************************)
(* Direct reads of the weight mask: the initial state holds the blend      *)
(* mode, the overlap and a pixel, the call adds the pixel's weight.  The   *)
(* overlaps are those the spinbox steps through.                           *)
(***************************************************************************)
UnknownBlendMode == "Unknown Mode"

SpinboxOverlaps == 1..10

ProbePixels == {0, 1, 4, 5, 9, 10, 31, 32, 54, 55, 59, 60, 64}

WeightCalls ==
    { [fn |-> "sector_weight", blend_mode |-> m, overlap |-> o, y |-> y, x |-> x,
       done |-> FALSE, ret |-> None] :
        m \in BlendModes \cup {UnknownBlendMode}, o \in SpinboxOverlaps,
        y \in ProbePixels, x \in ProbePixels }

CallSectorWeight ==
    /\ call.fn = "sector_weight" /\ ~call.done
    /\ call' = [call EXCEPT !.done = TRUE,
                            !.ret = sector_weight(call.blend_mode, call.overlap,
                                                  call.y, call.x)]
    /\ UNCHANGED <<self, display, platform>>

InitWeight ==
    /\ self = InitSelf
    /\ display = NoDisplay
    /\ call \in WeightCalls
    /\ platform = [ragged_raises |-> TRUE, stdout_unicode |-> TRUE]
NextWeight == CallSectorWeight
SpecWeight == InitWeight /\ [][NextWeight]_vars

(***************************************************************************)
(* Direct calls of get_atlas_subsector_coords, with the arguments          *)
(* load_sector_texture passes for an atlas of height x width pixels:       *)
(* half_h = height // 2 and half_w = width // 2.                           *)
(***************************************************************************)
AtlasSizes == {1, 2, 3, 4, 7}

AtlasCalls ==
    { [fn |-> "get_atlas_subsector_coords", sub_sector |-> s,
       half_h |-> h \div 2, half_w |-> w \div 2, height |-> h, width |-> w,
       done |-> FALSE, ret |-> None] :
        s \in 0..3, h \in AtlasSizes, w \in AtlasSizes }

CallGetAtlasSubsectorCoords ==
    /\ call.fn = "get_atlas_subsector_coords" /\ ~call.done
    /\ call' = [call EXCEPT
                  !.done = TRUE,
                  !.ret = get_atlas_subsector_coords(self, call.sub_sector, call.half_h,
                                                     call.half_w, call.height, call.width)]
    /\ UNCHANGED <<self, display, platform>>

InitAtlas ==
    /\ \E p \in AtlasPatterns \cup UnknownAtlasPatterns :
          self = [InitSelf EXCEPT !.atlas_subsector_pattern = p]
    /\ display = NoDisplay
    /\ call \in AtlasCalls
    /\ platform = [ragged_raises |-> TRUE, stdout_unicode |-> TRUE]

NextAtlas == CallGetAtlasSubsectorCoords

SpecAtlas == InitAtlas /\ [][NextAtlas]_vars

(***************************************************************************)
(* Properties.                                                             *)
(***************************************************************************)
Resolved == call.fn = "get_sector_index_from_position" /\ call.done
Decoded == call.fn = "load_single_sector" /\ call.done
WaterParsed == call.fn = "parse_water_from_sector" /\ call.done

\* C1: for every ordering policy and every grid size the resolver is a
\* bijection from the cells of the grid onto 0 .. sectorsX*sectorsY - 1: the
\* index of a cell lies in that range and no other cell of the grid gets it.
C1_ResolverBijection ==
    Resolved =>
        /\ call.ret \in 0..(call.sectors_x * call.sectors_y - 1)
        /\ \A r \in 0..call.sectors_y - 1, c \in 0..call.sectors_x - 1 :
               <<r, c>> # <<call.display_row, call.col>> =>
                   get_sector_index_from_position(self, r, c, call.sectors_x, call.sectors_y)
                       # call.ret

\* C2: a buffer of at least 708 + 16900 bytes decodes to a 65x65 grid whose
\* cell (y, x) is the little-endian 16-bit value at offset 708 + 4*(y*65 + x)
\* divided by 128, and neither the two bytes after each value nor the header
\* bytes influence the grid.
C2_CellOffset(y, x) == 708 + 4 * (y * 65 + x)

C2_DecodeFull ==
    (Decoded /\ call.file.len >= 708 + 16900) =>
        /\ Len(call.ret) = 65
        /\ \A y \in 0..64 :
              /\ Len(call.ret[y + 1]) = 65
              /\ \A x \in 0..64 :
                    LET lo == Byte(call.file, C2_CellOffset(y, x))
                        hi == Byte(call.file, C2_CellOffset(y, x) + 1)
                        h  == call.ret[y + 1][x + 1]
                    IN  h[2] > 0 /\ h[1] * 128 = (lo + 256 * hi) * h[2]
        /\ \A pad \in {0, 5, 171}, hdr \in {0, 33, 90} :
              load_single_sector([call.file EXCEPT !.pad = pad, !.hdr = hdr],
                                 platform.ragged_raises) = call.ret

C2_Witness ==
    /\ Decoded
    /\ call.file.len = 708 + 16900
    /\ call.file.pad = 171 /\ call.file.hdr = 90
    /\ call.file.val = <<130, 1, 300>>
    /\ call.ret[65][2] = Rat(130 * 64 + 301, 128)

\* C3: every buffer shorter than 708 + 4*65*65 bytes makes load_single_sector
\* fail: it returns None and never a height grid.
C3_TruncatedFails ==
    (Decoded /\ call.file.len < 708 + 4 * 65 * 65) => call.ret = None

\* C5: the water record holds the little-endian float of bytes 0xB0..0xB3,
\* or 0.0 and no water when the buffer is shorter than 0xB0 + 4 bytes, and
\* hasWater holds exactly when waterHeight is non-zero.
C5_WaterRecord ==
    WaterParsed =>
        LET f == call.file
            w == call.ret
            expected ==
                IF f.len < 180 THEN FloatZero
                ELSE [ sign |-> IF Byte(f, 179) >= 128 THEN 1 ELSE 0,
                       exp  |-> 2 * (Byte(f, 179) % 128) + Byte(f, 178) \div 128,
                       man  |-> Byte(f, 176) + 256 * Byte(f, 177)
                                + 65536 * (Byte(f, 178) % 128) ]
        IN  /\ w.water_height = expected
            /\ w.has_water <=> (w.water_height.exp # 0 \/ w.water_height.man # 0)

(***************************************************************************)
(* The display of the last update_display that completed, with the inputs  *)
(* it was built from.  Cells are numbered in loop order: cell k of a grid  *)
(* sectors_x wide is at display row (k - 1) \div sectors_x and column      *)
(* (k - 1) % sectors_x.                                                    *)
(***************************************************************************)
Displayed == display.shown /\ self.current_combined_map # None
StandardPath == Displayed /\ ~display.use_seam_blending
SeamPath == Displayed /\ display.use_seam_blending

CellsOf(m) == 1..(m.sectors_x * m.sectors_y)
RowOf(m, k) == (k - 1) \div m.sectors_x
ColOf(m, k) == (k - 1) % m.sectors_x
PolicyIndex(m, k) ==
    get_sector_index_from_position(m, RowOf(m, k), ColOf(m, k), m.sectors_x, m.sectors_y)
SequentialIndex(m, k) == (m.sectors_y - 1 - RowOf(m, k)) * m.sectors_x + ColOf(m, k)

\* the 65 values of mosaic row 65 * RowOf(k) + local that lie in cell k
CellRow(mosaic, m, k, local) ==
    SubSeq(mosaic[RowOf(m, k) * 65 + local], ColOf(m, k) * 65 + 1, ColOf(m, k) * 65 + 65)

\* C4: a sector file that does not decode to a full 65x65 grid never aborts
\* the rest: after a load every other numbered sector of the directory is
\* loaded, the bad one is not (its cell is missing), and no update_display
\* raises.
C4_BadSectorIsolated ==
    /\ ~display.raised
    /\ self.current_directory # "" =>
          \A k \in DOMAIN DirOf(self.current_directory).files :
              LET entry == DirOf(self.current_directory).files[k]
              IN  py_int(entry.stem).ok =>
                      ( py_int(entry.stem).value \in DOMAIN self.sectors_data
                          <=> IsGrid(load_single_sector(entry.file, platform.ragged_raises)) )

\* C6: in the standard path the texture index of every cell is the ordering
\* policy's index whatever the flags, and the height index is the policy's
\* index when the pattern is applied to the heightmap and otherwise
\* (sectorsY - 1 - displayRow) * sectorsX + col.
C6_CellIndices ==
    StandardPath =>
        LET m == self.current_combined_map
        IN  /\ DOMAIN display.index = CellsOf(m)
            /\ \A k \in CellsOf(m) :
                  /\ display.index[k].texture_sector_index = PolicyIndex(m, k)
                  /\ display.index[k].heightmap_sector_index =
                         IF m.apply_pattern_to_heightmap THEN PolicyIndex(m, k)
                         ELSE SequentialIndex(m, k)

C6_Witness ==
    /\ StandardPath
    /\ display.sectors_x = 2 /\ display.sectors_y = 2
    /\ ~self.current_combined_map.apply_pattern_to_heightmap
    /\ self.current_combined_map.sector_order_pattern = PatHorizontal
    /\ display.index[1].texture_sector_index = 0
    /\ display.index[1].heightmap_sector_index = 2

\* C7: in the standard path every placed height sector is flipped
\* vertically (row r of the cell holds sector row 64 - r), unless the
\* pattern is applied to the heightmap and is a block-2x2 game layout, and
\* then it is placed unflipped.
C7_HeightFlip ==
    StandardPath =>
        LET m == self.current_combined_map
            mosaic == combined_map(m)
        IN  \A k \in CellsOf(m) :
                LET i == display.index[k].heightmap_sector_index
                IN  i \in DOMAIN m.sectors_data =>
                        \A local \in 1..65 :
                            CellRow(mosaic, m, k, local) =
                                IF /\ m.apply_pattern_to_heightmap
                                   /\ m.sector_order_pattern \in BlockPatterns
                                THEN SectorArray(m.sectors_data[i])[local]
                                ELSE SectorArray(m.sectors_data[i])[66 - local]

\* C8: in the standard path a cell whose height sector is absent is all
\* zero in the mosaic and is recorded once as missing, nothing is raised,
\* and displayed + missing = sectorsX * sectorsY.
C8_MissingCells ==
    StandardPath =>
        LET m == self.current_combined_map
            mosaic == combined_map(m)
            absent == { k \in CellsOf(m) :
                          display.index[k].heightmap_sector_index
                              \notin DOMAIN m.sectors_data }
        IN  /\ ~display.raised
            /\ \A k \in absent : \A local \in 1..65 :
                  CellRow(mosaic, m, k, local) = [x \in 1..65 |-> <<0, 1>>]
            /\ Len(display.missing_sectors) = Cardinality(absent)
            /\ \A k \in absent :
                  Cardinality({ j \in absent : j <= k }) \in DOMAIN display.missing_sectors
                  /\ display.missing_sectors[Cardinality({ j \in absent : j <= k })]
                         = display.index[k].heightmap_sector_index
            /\ Len(display.displayed_sectors) + Len(display.missing_sectors)
                  = m.sectors_x * m.sectors_y

C8_Witness ==
    /\ StandardPath
    /\ display.sectors_x = 2 /\ display.sectors_y = 2
    /\ DOMAIN self.current_combined_map.sectors_data = {0, 1, 2}
    /\ display.missing_sectors = <<3>>
    /\ Len(display.displayed_sectors) = 3

\* C9: in the standard path and in the seam-blending path alike the missing
\* count is the number of grid cells whose resolved sector is absent and
\* the displayed count is the number of cells whose sector is present.
C9_ReportedCounts ==
    Displayed =>
        LET m == self.current_combined_map
            resolved(k) == IF display.use_seam_blending THEN PolicyIndex(m, k)
                           ELSE IF m.apply_pattern_to_heightmap THEN PolicyIndex(m, k)
                           ELSE SequentialIndex(m, k)
            present == { k \in CellsOf(m) : resolved(k) \in DOMAIN m.sectors_data }
        IN  /\ Len(display.missing_sectors) = Cardinality(CellsOf(m) \ present)
            /\ Len(display.displayed_sectors) = Cardinality(present)

\* C10: with seam blending on a fully populated grid whose sectors all hold
\* one value v, every pixel of the blended heightmap is v, for overlap 1, 5
\* and 10 and each blend mode.
C10_UniformBlend ==
    ( /\ SeamPath
      /\ self.current_combined_map.seam_overlap_pixels \in {1, 5, 10}
      /\ \A k \in CellsOf(self.current_combined_map) :
            PolicyIndex(self.current_combined_map, k)
                \in DOMAIN self.current_combined_map.sectors_data )
    =>
        LET m == self.current_combined_map
            mosaic == combined_map(m)
        IN  \A v \in 1..3 :
                (\A i \in DOMAIN m.sectors_data : m.sectors_data[i].file = FlatFile(v)) =>
                    \A y \in DOMAIN mosaic : \A x \in DOMAIN mosaic[y] :
                        mosaic[y][x] = <<v, 1>>

\* C11: the weight mask of a sector is the product of one factor per edge:
\* 1 when the pixel is at least overlap away from the edge, and otherwise
\* ramp(d / overlap) with d the distance to the edge, where ramp(t) is t for
\* Linear and for an unknown mode, t*t*(3 - 2t) for Smooth Feather and
\* t^3*(t*(6t - 15) + 10) for Gaussian.  The factors the blend takes per row
\* and per column are those of the mask.
WeightRead == call.fn = "sector_weight" /\ call.done

C11_Ramp(blend_mode, d, o) ==
    IF blend_mode = "Smooth Feather"
    THEN Rat(3 * d * d * o - 2 * d * d * d, o * o * o)
    ELSE IF blend_mode = "Gaussian"
    THEN Rat(6 * d * d * d * d * d - 15 * d * d * d * d * o + 10 * d * d * d * o * o,
             o * o * o * o * o)
    ELSE Rat(d, o)

C11_EdgeFactor(blend_mode, d, o) ==
    IF d >= o THEN Rat(1, 1) ELSE C11_Ramp(blend_mode, d, o)

C11_WeightMask ==
    WeightRead =>
        LET m == call.blend_mode
            o == call.overlap
        IN  /\ call.ret =
                  RatMul(RatMul(C11_EdgeFactor(m, call.x, o),
                                C11_EdgeFactor(m, 64 - call.x, o)),
                         RatMul(C11_EdgeFactor(m, call.y, o),
                                C11_EdgeFactor(m, 64 - call.y, o)))
            /\ (m \in BlendModes /\ o \in Overlaps) =>
                  call.ret = Rat(EdgeFactors[m, o][call.y] * EdgeFactors[m, o][call.x],
                                 WeightDen(m, o) * WeightDen(m, o))

C11_Witness ==
    /\ WeightRead
    /\ call.blend_mode = "Gaussian" /\ call.overlap = 10
    /\ call.y = 4 /\ call.x = 59
    /\ call.ret = <<496, 3125>>

\* The array of sector i that the seam path accumulates.
SeamSource(m, is_texture, i) ==
    IF ~is_texture THEN heightmap_dict(m)[i]
    ELSE IF m.sector_order_pattern # PatVertical THEN np_flipud(textures_dict(m)[i])
    ELSE textures_dict(m)[i]

SeamSectors(m, is_texture) ==
    IF is_texture THEN DOMAIN m.sectors_textures ELSE DOMAIN m.sectors_data

\* Pixel (y, x) of the output lies in the 65x65 window of cell k when the
\* window starts at (row * (65 - overlap), column * (65 - overlap)).
InWindow(m, k, y, x) ==
    /\ y - RowOf(m, k) * (65 - m.seam_overlap_pixels) \in 0..64
    /\ x - ColOf(m, k) * (65 - m.seam_overlap_pixels) \in 0..64

\* weight of cell k at output pixel (y, x), as a multiple of 1 / WeightDen^2
WindowWeight(m, is_texture, k, y, x) ==
    IF InWindow(m, k, y, x) /\ PolicyIndex(m, k) \in SeamSectors(m, is_texture)
    THEN EdgeFactors[m.seam_blend_mode, m.seam_overlap_pixels]
                    [y - RowOf(m, k) * (65 - m.seam_overlap_pixels)]
         * EdgeFactors[m.seam_blend_mode, m.seam_overlap_pixels]
                      [x - ColOf(m, k) * (65 - m.seam_overlap_pixels)]
    ELSE 0

\* the sector's value at output pixel (y, x), as a rational
WindowValue(m, is_texture, k, y, x) ==
    LET v == SeamSource(m, is_texture, PolicyIndex(m, k))
                 [y - RowOf(m, k) * (65 - m.seam_overlap_pixels) + 1]
                 [x - ColOf(m, k) * (65 - m.seam_overlap_pixels) + 1]
    IN  IF is_texture THEN <<v, 1>> ELSE v

\* the weighted mean over the windows that hold (y, x); 0 where no weight falls
WindowMean(m, is_texture, y, x) ==
    LET w(k) == WindowWeight(m, is_texture, k, y, x)
        t(k) == IF w(k) = 0 THEN Zero
                ELSE RatScale(WindowValue(m, is_texture, k, y, x), w(k))
        weights == SumRange(w, 1, m.sectors_x * m.sectors_y)
        combined == RatSumRange(t, 1, m.sectors_x * m.sectors_y)
        q == IF weights = 0 THEN Zero ELSE Rat(combined[1], combined[2] * weights)
    IN  IF is_texture THEN Max(0, Min(255, q[1] \div q[2])) ELSE q

\* pixels at the corners of the output and around the start and end of windows
SeamProbes(n, overlap) ==
    { p \in 0..(n * (65 - overlap) + overlap - 1) :
        \E c \in 0..(n - 1) :
            p - c * (65 - overlap) \in {0, 1, overlap, 32, 64} }

SeamShape(m) ==
    << m.sectors_y * (65 - m.seam_overlap_pixels) + m.seam_overlap_pixels,
       m.sectors_x * (65 - m.seam_overlap_pixels) + m.seam_overlap_pixels >>

WindowsAgree(m, mosaic, is_texture) ==
    /\ Len(mosaic) = SeamShape(m)[1]
    /\ Len(mosaic[1]) = SeamShape(m)[2]
    /\ \A y \in SeamProbes(m.sectors_y, m.seam_overlap_pixels) :
          \A x \in SeamProbes(m.sectors_x, m.seam_overlap_pixels) :
              mosaic[y + 1][x + 1] = WindowMean(m, is_texture, y, x)

\* C12: the seam path is taken exactly when seam blending is enabled and
\* the overlap is positive.  Its output, height and texture alike, is
\* sectors_y * (65 - overlap) + overlap rows of sectors_x * (65 - overlap)
\* + overlap pixels, and the sector of cell (row, column) is accumulated in
\* the window at (row * (65 - overlap), column * (65 - overlap)).  The
\* standard path gives sectors_y * 65 rows of sectors_x * 65 pixels.
C12_SeamGeometry ==
    Displayed =>
        LET m == self.current_combined_map
        IN  /\ display.use_seam_blending
                  <=> (m.enable_seam_blending /\ m.seam_overlap_pixels > 0)
            /\ display.use_seam_blending =>
                  /\ m.seam_overlap_pixels >= 1
                  /\ WindowsAgree(m, combined_map(m), FALSE)
                  /\ display.combined_texture # None =>
                        WindowsAgree(m, seam_texture(m).combined, TRUE)
            /\ ~display.use_seam_blending =>
                  /\ Shape(combined_map(m)) = <<65 * m.sectors_y, 65 * m.sectors_x>>
                  /\ display.combined_texture # None =>
                        Shape(standard_texture(m))
                            = <<65 * m.sectors_y, 65 * m.sectors_x>>

\* two sectors side by side with textures, blended over 5 pixels: pixel 61 of
\* row 32 lies in both windows
C12_Witness ==
    /\ SeamPath
    /\ display.combined_texture # None
    /\ self.current_combined_map.seam_overlap_pixels = 5
    /\ self.current_combined_map.sectors_x = 2
    /\ DOMAIN self.current_combined_map.sectors_data = {0, 1, 2, 3}
    /\ InWindow(self.current_combined_map, 1, 32, 61)
    /\ InWindow(self.current_combined_map, 2, 32, 61)
    /\ Shape(combined_map(self.current_combined_map))[2] = 125

\* the number of rows of a mosaic and its pixels at rows and columns 2, 33
\* and 64, which every mosaic has
CornerProbes == {2, 33, 64}

\* the mosaics a and b agree at the probed pixels
SameProbes(a, b) ==
    \A y \in CornerProbes : \A x \in CornerProbes : a[y][x] = b[y][x]

\* The height mosaics of inputs m1 and m2 agree at the probed pixels and, in
\* the standard path, have the same shape (the shape of a seam-path output
\* is the matter of C12).
SameHeights(m1, m2) ==
    /\ UseSeamBlending(m1) = UseSeamBlending(m2)
    /\ ~UseSeamBlending(m1) => Shape(combined_map(m1)) = Shape(combined_map(m2))
    /\ SameProbes(combined_map(m1), combined_map(m2))

\* the display request made by pressing the rotation button r
Rotated(r) == update_display([self EXCEPT !.map_rotation = r], display)

\* C13: a display request that differs from the one before only in the
\* rotation stores the same height mosaic, in the standard path and in the
\* seam path: the stored inputs differ in the rotation alone and the height
\* mosaic built from them is the same.
C13_RotationKeepsHeights ==
    (Displayed /\ ~display.raised /\ self.current_combined_map = MosaicInputs(self)) =>
        \A r \in Rotations :
            /\ ~Rotated(r).display.raised
            /\ Rotated(r).self.current_combined_map
                   = [self.current_combined_map EXCEPT !.map_rotation = r]
            /\ SameHeights(self.current_combined_map,
                           Rotated(r).self.current_combined_map)

\* a 2x1 grid with textures shown after the rotation was set to 90 degrees:
\* the texture mosaic is 130 rows of 65, the height mosaic 65 rows of 130
C13_Witness ==
    /\ StandardPath
    /\ display.combined_texture # None
    /\ self.map_rotation = 90
    /\ self.current_combined_map.map_rotation = 90
    /\ self.current_combined_map.sectors_x = 2
    /\ self.current_combined_map.sectors_y = 1
    /\ Shape(combined_map(self.current_combined_map)) = <<65, 130>>
    /\ Shape(combined_texture(self.current_combined_map)) = <<130, 65>>

\* A viewer fresh from __init__ given the sector collection, the grid
\* dimensions, the ordering policy and the height and blend flags of me.
FreshViewer(me) ==
    [InitSelf EXCEPT !.sectors_data = me.sectors_data,
                     !.sectors_x = me.sectors_x,
                     !.sectors_y = me.sectors_y,
                     !.sector_order_pattern = me.sector_order_pattern,
                     !.apply_pattern_to_heightmap = me.apply_pattern_to_heightmap,
                     !.enable_seam_blending = me.enable_seam_blending,
                     !.seam_overlap_pixels = me.seam_overlap_pixels,
                     !.seam_blend_mode = me.seam_blend_mode]

SequentialPatterns == OrderPatterns \ BlockPatterns

\* <<row, column>> of the corner of a sectors_x by sectors_y grid that the
\* policy is named after
NamedCorner(pattern, sectors_x, sectors_y) ==
    IF pattern \in {"Bottom-Left Sequential", "Bottom-Left by Column"}
    THEN <<sectors_y - 1, 0>>
    ELSE IF pattern \in {"Top-Left Sequential", "Top-Left by Column"} THEN <<0, 0>>
    ELSE IF pattern = "Bottom-Right Sequential" THEN <<sectors_y - 1, sectors_x - 1>>
    ELSE <<0, sectors_x - 1>>

\* C15: for the six policies that are not block policies the resolver
\* returns, with sectorRow = sectors_y - 1 - display_row and sectorCol =
\* sectors_x - 1 - col, the row-major or column-major number the policy's
\* name says, and the cell at the corner the policy is named after has
\* index 0.
C15_SequentialPolicies ==
    (Resolved /\ self.sector_order_pattern \in SequentialPatterns) =>
        LET pattern == self.sector_order_pattern
            sectorRow == call.sectors_y - 1 - call.display_row
            sectorCol == call.sectors_x - 1 - call.col
            corner == NamedCorner(pattern, call.sectors_x, call.sectors_y)
        IN  /\ pattern = "Bottom-Left Sequential" =>
                  call.ret = sectorRow * call.sectors_x + call.col
            /\ pattern = "Top-Left Sequential" =>
                  call.ret = call.display_row * call.sectors_x + call.col
            /\ pattern = "Bottom-Right Sequential" =>
                  call.ret = sectorRow * call.sectors_x + sectorCol
            /\ pattern = "Top-Right Sequential" =>
                  call.ret = call.display_row * call.sectors_x + sectorCol
            /\ pattern = "Bottom-Left by Column" =>
                  call.ret = call.col * call.sectors_y + sectorRow
            /\ pattern = "Top-Left by Column" =>
                  call.ret = call.col * call.sectors_y + call.display_row
            /\ (call.display_row = corner[1] /\ call.col = corner[2]) => call.ret = 0
            /\ call.ret = 0 => (call.display_row = corner[1] /\ call.col = corner[2])

\* the bottom-right cell of a 3x2 grid under Bottom-Right Sequential
C15_Witness ==
    /\ Resolved
    /\ self.sector_order_pattern = "Bottom-Right Sequential"
    /\ call.sectors_x = 3 /\ call.sectors_y = 2
    /\ call.display_row = 1 /\ call.col = 2
    /\ call.ret = 0

\* The three permutations of the slots TL = 0, TR = 1, BL = 2, BR = 3.
PermIdentity == <<0, 1, 2, 3>>
PermSwap12 == <<0, 2, 1, 3>>
PermSwap03 == <<3, 1, 2, 0>>

\* the permutation and the traversal of each block policy
PolicyPerm(pattern) ==
    IF pattern = PatNoSwap THEN PermIdentity
    ELSE IF pattern = PatSwap03 THEN PermSwap03
    ELSE PermSwap12

RowMajorPolicies == {PatHorizontal}

Slot(display_row, col) == 2 * (display_row % 2) + (col % 2)

ColumnMajorBlock(display_row, col, sectors_x, sectors_y) ==
    (col \div 2) * (sectors_y \div 2) + (display_row \div 2)

RowMajorBlock(display_row, col, sectors_x, sectors_y) ==
    (display_row \div 2) * (sectors_x \div 2) + (col \div 2)

ResolveAs(pattern, display_row, col, sectors_x, sectors_y) ==
    get_sector_index_from_position([InitSelf EXCEPT !.sector_order_pattern = pattern],
                                   display_row, col, sectors_x, sectors_y)

PermOf(pattern) ==
    << ResolveAs(pattern, 0, 0, 2, 2), ResolveAs(pattern, 0, 1, 2, 2),
       ResolveAs(pattern, 1, 0, 2, 2), ResolveAs(pattern, 1, 1, 2, 2) >>

TraversalOf(pattern) ==
    IF ResolveAs(pattern, 0, 2, 4, 4) \div 4 = 2 THEN "column-major" ELSE "row-major"

Traversals == {"column-major", "row-major"}

Combinations == { <<TraversalOf(p), PermOf(p)>> : p \in BlockPatterns }

SwapChoices == { PermOf(p) : p \in BlockPatterns }

\* C17 as stated: the four block policies are the four combinations of the
\* two traversals with two swap choices, one of them no swap.
C17_TwoByTwo ==
    (Resolved /\ self.sector_order_pattern \in BlockPatterns) =>
        /\ Cardinality(SwapChoices) = 2
        /\ PermIdentity \in SwapChoices
        /\ Combinations = Traversals \X SwapChoices

\* C17: the four block policies are the column-major traversal with
\* swap(1,2), with no swap and with swap(0,3), and the row-major traversal
\* with swap(1,2): three swap choices, and the row-major traversal with
\* one of them only.  The policy of the call resolves accordingly.
C17_Combinations ==
    (Resolved /\ self.sector_order_pattern \in BlockPatterns) =>
        /\ Combinations = { <<"column-major", PermSwap12>>, <<"column-major", PermIdentity>>,
                            <<"column-major", PermSwap03>>, <<"row-major", PermSwap12>> }
        /\ <<TraversalOf(PatVertical), PermOf(PatVertical)>> = <<"column-major", PermSwap12>>
        /\ <<TraversalOf(PatHorizontal), PermOf(PatHorizontal)>> = <<"row-major", PermSwap12>>
        /\ <<TraversalOf(PatNoSwap), PermOf(PatNoSwap)>> = <<"column-major", PermIdentity>>
        /\ <<TraversalOf(PatSwap03), PermOf(PatSwap03)>> = <<"column-major", PermSwap03>>
        /\ call.ret \div 4 =
              IF TraversalOf(self.sector_order_pattern) = "row-major"
              THEN RowMajorBlock(call.display_row, call.col, call.sectors_x, call.sectors_y)
              ELSE ColumnMajorBlock(call.display_row, call.col,
                                    call.sectors_x, call.sectors_y)
        /\ call.ret % 4 = PermOf(self.sector_order_pattern)
                              [Slot(call.display_row, call.col) + 1]

\* Swap 0<->3 on a 4x4 grid, first column of the third row: the second block
\* counted downward (the third counted rightward), top-left slot, offset 3
C17_Witness ==
    /\ Resolved
    /\ self.sector_order_pattern = PatSwap03
    /\ call.sectors_x = 4 /\ call.sectors_y = 4
    /\ call.display_row = 2 /\ call.col = 0
    /\ call.ret = 7

\* C18: for every ordering policy and every grid of at least 1x1 the sector
\* numbering starts at 0: no cell of the grid resolves to a negative index
\* and some cell resolves to index 0.
C18_StartsAtZero ==
    Resolved =>
        /\ call.ret >= 0
        /\ \E r \in 0..(call.sectors_y - 1), c \in 0..(call.sectors_x - 1) :
              get_sector_index_from_position(self, r, c, call.sectors_x, call.sectors_y) = 0

\* C19: under a policy name that is none of the ten known names the
\* resolver returns the Bottom-Left Sequential number
\* (sectors_y - 1 - display_row) * sectors_x + col, for every cell and grid.
C19_UnknownPolicy ==
    (Resolved /\ self.sector_order_pattern \notin OrderPatterns) =>
        /\ call.ret = (call.sectors_y - 1 - call.display_row) * call.sectors_x + call.col
        /\ call.ret = ResolveAs("Bottom-Left Sequential", call.display_row, call.col,
                                call.sectors_x, call.sectors_y)

\* the top-right cell of a 3x2 grid under a known name in lower case
C19_Witness ==
    /\ Resolved
    /\ self.sector_order_pattern = "bottom-left sequential"
    /\ call.sectors_x = 3 /\ call.sectors_y = 2
    /\ call.display_row = 0 /\ call.col = 2
    /\ call.ret = 5

AtlasRead == call.fn = "get_atlas_subsector_coords" /\ call.done

\* the quadrants of sub-tiles 0, 1, 2, 3 as each pattern's name lists them
NamedQuadrants(pattern) ==
    IF pattern = "Standard [0=TL, 1=TR, 2=BL, 3=BR]" THEN <<"TL", "TR", "BL", "BR">>
    ELSE IF pattern = "Rotated CW [0=TR, 1=BR, 2=TL, 3=BL]" THEN <<"TR", "BR", "TL", "BL">>
    ELSE IF pattern = "Rotated CCW [0=BL, 1=TL, 2=BR, 3=TR]" THEN <<"BL", "TL", "BR", "TR">>
    ELSE IF pattern = "Rotated 180 [0=BR, 1=BL, 2=TR, 3=TL]" THEN <<"BR", "BL", "TR", "TL">>
    ELSE IF pattern = "Flipped H [0=TR, 1=TL, 2=BR, 3=BL]" THEN <<"TR", "TL", "BR", "BL">>
    ELSE IF pattern = "Flipped V [0=BL, 1=BR, 2=TL, 3=TR]" THEN <<"BL", "BR", "TL", "TR">>
    ELSE IF pattern = "By Column [0=TL, 1=BL, 2=TR, 3=BR]" THEN <<"TL", "BL", "TR", "BR">>
    ELSE <<"BL", "TL", "BR", "TR">>       \* By Column Rev

\* rows [y_start, y_end) x columns [x_start, x_end) of quadrant q of an
\* H x W atlas, the halves being H div 2 and W div 2
QuadrantRect(q, H, W) ==
    << IF q \in {"TL", "TR"} THEN 0 ELSE H \div 2,
       IF q \in {"TL", "TR"} THEN H \div 2 ELSE H,
       IF q \in {"TL", "BL"} THEN 0 ELSE W \div 2,
       IF q \in {"TL", "BL"} THEN W \div 2 ELSE W >>

InRect(rect, y, x) == y >= rect[1] /\ y < rect[2] /\ x >= rect[3] /\ x < rect[4]

\* the rectangle of sub-tile s for the atlas and the pattern of the call
SubTileRect(s) ==
    get_atlas_subsector_coords(self, s, call.half_h, call.half_w, call.height, call.width)

\* C20: under each of the eight named patterns sub-tile ids 0..3 get the
\* quadrants the pattern's name lists (under Standard, id 0 gets rows
\* [0, H/2) and columns [0, W/2)); the four ids get four different
\* quadrants, and the four rectangles are pairwise disjoint and cover the
\* H x W atlas: every pixel lies in exactly one of them.
C20_AtlasQuadrants ==
    (AtlasRead /\ self.atlas_subsector_pattern \in AtlasPatterns) =>
        /\ call.ret = QuadrantRect(NamedQuadrants(self.atlas_subsector_pattern)
                                       [call.sub_sector + 1],
                                   call.height, call.width)
        /\ call.ret = SubTileRect(call.sub_sector)
        /\ (self.atlas_subsector_pattern = "Standard [0=TL, 1=TR, 2=BL, 3=BR]"
               /\ call.sub_sector = 0) =>
              call.ret = <<0, call.height \div 2, 0, call.width \div 2>>
        /\ { NamedQuadrants(self.atlas_subsector_pattern)[s + 1] : s \in 0..3 }
               = {"TL", "TR", "BL", "BR"}
        /\ { SubTileRect(s) : s \in 0..3 }
               = { QuadrantRect(q, call.height, call.width) : q \in {"TL", "TR", "BL", "BR"} }
        /\ Cardinality({ SubTileRect(s) : s \in 0..3 }) = 4
        /\ \A y \in 0..(call.height - 1), x \in 0..(call.width - 1) :
              Cardinality({ s \in 0..3 : InRect(SubTileRect(s), y, x) }) = 1

\* sub-tile 1 of a 4-row, 7-column atlas under By Column Rev: its name holds
\* the key word of By Column too; the quadrant is the top-left one
C20_Witness ==
    /\ AtlasRead
    /\ self.atlas_subsector_pattern = "By Column Rev [0=BL, 1=TL, 2=BR, 3=TR]"
    /\ call.sub_sector = 1
    /\ call.height = 4 /\ call.width = 7
    /\ call.ret = <<0, 2, 0, 3>>

\* the key words in the order of the tests, and the first of them that
\* occurs in a name
KeyOrder ==
    << "Standard", "Rotated CW", "Rotated CCW", "Rotated 180",
       "Flipped H", "Flipped V", "By Column Rev", "By Column" >>

FirstKey(pattern) ==
    KeyOrder[CHOOSE i \in 1..8 :
                /\ KeyOrder[i] \in KeysIn(pattern)
                /\ \A j \in 1..(i - 1) : KeyOrder[j] \notin KeysIn(pattern)]

KeyPattern(key) == CHOOSE p \in AtlasPatterns : key \in KeysIn(p) /\ FirstKey(p) = key

\* C21: for a pattern name in which none of the eight key words occurs,
\* get_atlas_subsector_coords returns, for every sub-tile id 0..3, a
\* rectangle (the call does not raise) and that rectangle is the one of the
\* Standard pattern: 0, 1, 2, 3 -> TL, TR, BL, BR.  A name outside the
\* eight in which a key word occurs is read as the pattern of its first key
\* word in the order of the tests.
C21_UnknownAtlasPattern ==
    (AtlasRead /\ self.atlas_subsector_pattern \notin AtlasPatterns) =>
        LET pattern == self.atlas_subsector_pattern
            standard == "Standard [0=TL, 1=TR, 2=BL, 3=BR]"
        IN  /\ call.ret # None
            /\ KeysIn(pattern) = {} =>
                  /\ call.ret = QuadrantRect(<<"TL", "TR", "BL", "BR">>[call.sub_sector + 1],
                                             call.height, call.width)
                  /\ \A s \in 0..3 :
                        SubTileRect(s)
                          = get_atlas_subsector_coords(
                                [self EXCEPT !.atlas_subsector_pattern = standard],
                                s, call.half_h, call.half_w, call.height, call.width)
            /\ KeysIn(pattern) # {} =>
                  call.ret = QuadrantRect(NamedQuadrants(KeyPattern(FirstKey(pattern)))
                                              [call.sub_sector + 1],
                                          call.height, call.width)

\* sub-tile 1 of a 4-row, 7-column atlas under the name "Diagonal": the
\* top-right quadrant, as under Standard
C21_Witness ==
    /\ AtlasRead
    /\ self.atlas_subsector_pattern = "Diagonal"
    /\ call.sub_sector = 1
    /\ call.height = 4 /\ call.width = 7
    /\ call.ret = <<0, 2, 3, 7>>

\* pattern occurs in the buffer at offset i
OccursAt(f, pattern, i) ==
    /\ i >= 0 /\ i + Len(pattern) <= f.len
    /\ \A k \in 1..Len(pattern) : Byte(f, i + k - 1) = pattern[k]

Occurs(f, pattern) == \E i \in 0..(f.len - 1) : OccursAt(f, pattern, i)

\* path is the span of the buffer from offset i up to the next NUL, or the
\* (at most) 100 bytes from i when no NUL follows
IsSpanFrom(f, i, path) ==
    /\ path # None
    /\ \A k \in 1..Len(path) : path[k] = Byte(f, i + k - 1)
    /\ \/ /\ i + Len(path) < f.len
          /\ Byte(f, i + Len(path)) = 0
          /\ \A k \in 1..Len(path) : path[k] # 0
       \/ /\ \A j \in i..(f.len - 1) : Byte(f, j) # 0
          /\ Len(path) = Min(100, f.len - i)

\* path is the span from the first occurrence of one of the two sequences,
\* the first sequence going before the second
IsMaterialOf(f, path) ==
    \E w \in 1..2 : \E i \in 0..(f.len - 1) :
        /\ OccursAt(f, water_patterns[w], i)
        /\ \A j \in 0..(i - 1) : ~OccursAt(f, water_patterns[w], j)
        /\ w = 2 => ~Occurs(f, water_patterns[1])
        /\ IsSpanFrom(f, i, path)

\* C22 as stated: whenever the buffer holds one of the two water-material
\* sequences the record's material path is the span from the match up to
\* the next NUL (100 bytes when none follows), and it is None when neither
\* sequence occurs.
C22_MaterialPath ==
    WaterParsed =>
        LET f == call.file
        IN  IF Occurs(f, water_patterns[1]) \/ Occurs(f, water_patterns[2])
            THEN IsMaterialOf(f, call.ret.material_path)
            ELSE call.ret.material_path = None

\* C22, amended: the material is searched only in a buffer of at least
\* 0xB0 + 4 bytes whose float at 0xB0 is not zero.  Then, when one of the
\* two sequences occurs, the path is the span from the first occurrence of
\* the first sequence (of the second when the first does not occur) up to
\* the next NUL, or the at most 100 bytes up to the end of the buffer when
\* no NUL follows.  In every other case the path is None.  The call
\* returns a record in every case.
C22_MaterialOfWater ==
    WaterParsed =>
        LET f == call.file
            searched ==
                /\ f.len >= 180
                /\ \E k \in 176..179 : Byte(f, k) % (IF k = 179 THEN 128 ELSE 256) # 0
        IN  /\ call.ret # None
            /\ call.ret.sector_num = 0
            /\ IF searched /\ (Occurs(f, water_patterns[1]) \/ Occurs(f, water_patterns[2]))
               THEN /\ IsMaterialOf(f, call.ret.material_path)
                    /\ call.ret.has_water
               ELSE call.ret.material_path = None

\* both sequences occur, the second one first: with water height 2.5 the
\* path starts at the first sequence, 33 bytes after 0xB4, and ends before
\* the NUL
C22_Witness ==
    /\ WaterParsed
    /\ call.file.water = <<0, 0, 32, 64>>
    /\ call.file.len = 400
    /\ OccursAt(call.file, water_patterns[2], 180)
    /\ call.ret.hex_offset_material = 213
    /\ call.ret.material_path = water_patterns[1] \o <<98>>

\* buffers that hold bytes 0xB0..0xB3 and agree on them
SameWaterBytes(f, g) ==
    /\ f.len >= height_offset + 4 /\ g.len >= height_offset + 4
    /\ \A k \in height_offset..(height_offset + 3) : Byte(f, k) = Byte(g, k)

\* C23: the material path plays no part in the water result: any two
\* buffers that agree on bytes 0xB0..0xB3, parsed on the same platform,
\* give the same hasWater and the same waterHeight, whatever their other
\* bytes are and whether or not the material search or its print fails.
C23_WaterIgnoresMaterial ==
    WaterParsed =>
        \A g \in WaterFiles :
            SameWaterBytes(call.file, g) =>
                LET other == parse_water_from_sector(g, 0, platform)
                IN  /\ other.has_water = call.ret.has_water
                    /\ other.water_height = call.ret.water_height

\* offsets (0-based, the same in both directions) of a cell's window that
\* no other cell's window holds: overlap .. 64 - overlap
InnerOffsets(overlap) == {overlap, 32, 64 - overlap}

\* C24: seam blending and the standard path place the same sector, the
\* same way up, at every cell.  Inside a cell's window, where no
\* neighbour overlaps it, the seam mosaic holds the values the standard
\* mosaic of the same inputs holds in that cell; with the ordering not
\* applied to the heights these are the flipped values of sector
\* (sectorsY - 1 - displayRow) * sectorsX + col, 0 if it is not loaded.
C24_SeamPlacesAsStandard ==
    SeamPath =>
        LET m == self.current_combined_map
            e == grid_size - m.seam_overlap_pixels
            seam == combined_map(m)
            std == standard_map(m)
        IN  \A k \in CellsOf(m) : \A y, x \in InnerOffsets(m.seam_overlap_pixels) :
                /\ seam[RowOf(m, k) * e + y + 1][ColOf(m, k) * e + x + 1]
                      = std[RowOf(m, k) * grid_size + y + 1][ColOf(m, k) * grid_size + x + 1]
                /\ ~m.apply_pattern_to_heightmap =>
                      seam[RowOf(m, k) * e + y + 1][ColOf(m, k) * e + x + 1]
                        = IF SequentialIndex(m, k) \in DOMAIN m.sectors_data
                          THEN SectorArray(m.sectors_data[SequentialIndex(m, k)])
                                   [grid_size - y][x + 1]
                          ELSE Zero

TextureShown == Displayed /\ display.combined_texture # None

\* offsets (0-based) probed in a tile
TileProbes == { <<0, 0>>, <<10, 20>>, <<64, 3>>, <<64, 64>> }

\* texel (y, x) of the tile of sector i as update_display places it: as
\* loaded for the shadow layer and under the vertical block layout, upside
\* down otherwise
PlacedTexel(m, i, y, x) ==
    IF m.texture_layer = "shadow" \/ m.sector_order_pattern = PatVertical
    THEN TextureArray(m.sectors_textures[i])[y + 1][x + 1]
    ELSE TextureArray(m.sectors_textures[i])[grid_size - y][x + 1]

\* C25: in the standard path with textures shown, every cell whose texture
\* sector index (the resolver's) is in sectors_textures holds that sector's
\* tile in the texture mosaic, whether or not the cell's height sector is
\* loaded.
C25_TextureOfCell ==
    (StandardPath /\ TextureShown) =>
        LET m == display.combined_texture
            tex == standard_texture(m)
        IN  \A k \in CellsOf(m) :
                PolicyIndex(m, k) \in DOMAIN m.sectors_textures =>
                    \A p \in TileProbes :
                        tex[RowOf(m, k) * grid_size + p[1] + 1]
                           [ColOf(m, k) * grid_size + p[2] + 1]
                          = PlacedTexel(m, PolicyIndex(m, k), p[1], p[2])

\* C26: with the shadow layer selected every tile of the texture mosaic is
\* the sector's shadow image as loaded, not upside down, under every
\* ordering pattern, in the standard path and in the seam blending path
\* (there, inside the cell's window where no neighbour overlaps it).
C26_ShadowAsLoaded ==
    (TextureShown /\ display.combined_texture.texture_layer = "shadow") =>
        LET m == display.combined_texture
            e == grid_size - m.seam_overlap_pixels
            tile(k) == TextureArray(m.sectors_textures[PolicyIndex(m, k)])
        IN  /\ StandardPath =>
                  \A k \in CellsOf(m) :
                      ( /\ PolicyIndex(m, k) \in DOMAIN m.sectors_textures
                        /\ CellIndex(m, RowOf(m, k), ColOf(m, k)).heightmap_sector_index
                               \in DOMAIN m.sectors_data ) =>
                          \A p \in TileProbes :
                              standard_texture(m)[RowOf(m, k) * grid_size + p[1] + 1]
                                                 [ColOf(m, k) * grid_size + p[2] + 1]
                                = tile(k)[p[1] + 1][p[2] + 1]
            /\ SeamPath =>
                  \A k \in CellsOf(m) :
                      PolicyIndex(m, k) \in DOMAIN m.sectors_textures =>
                          \A y, x \in InnerOffsets(m.seam_overlap_pixels) :
                              seam_texture(m).combined[RowOf(m, k) * e + y + 1]
                                                      [ColOf(m, k) * e + x + 1]
                                = tile(k)[y + 1][x + 1]

\* what the height mosaic is built from
HeightInputs(m) ==
    [ sectors_data |-> m.sectors_data,
      sectors_x |-> m.sectors_x,
      sectors_y |-> m.sectors_y,
      sector_order_pattern |-> m.sector_order_pattern,
      apply_pattern_to_heightmap |-> m.apply_pattern_to_heightmap,
      enable_seam_blending |-> m.enable_seam_blending,
      seam_overlap_pixels |-> m.seam_overlap_pixels,
      seam_blend_mode |-> m.seam_blend_mode ]

\* C27: after every handler that ran to its end (no print failed, no
\* update_display raised) the mosaic stored for export is the composite of
\* the sectors now loaded under the grid size and the flags now set: it is
\* never the mosaic of a collection loaded before, also when the directory
\* just loaded holds no readable sector.
C27_ExportIsCurrent ==
    (platform.stdout_unicode /\ ~display.raised /\ self.current_combined_map # None) =>
        HeightInputs(self.current_combined_map) = HeightInputs(self)

\* the index the resolver gives cell (r, c) of the call's grid
IndexAt(r, c) ==
    get_sector_index_from_position(self, r, c, call.sectors_x, call.sectors_y)

\* the indices of the four cells of the 2x2 block at block row br, block
\* column bc
BlockIndices(br, bc) ==
    { IndexAt(2 * br + dr, 2 * bc + dc) : dr \in 0..1, dc \in 0..1 }

EvenGrid == call.sectors_x % 2 = 0 /\ call.sectors_y % 2 = 0

\* C28: under each of the four block policies, on a grid whose two sizes
\* are even, the resolver maps the cells one-to-one onto
\* 0 .. sectorsX*sectorsY - 1, and the four cells of every 2x2 block get
\* the four indices 4b, 4b+1, 4b+2, 4b+3 of one b.
C28_EvenGridBlocks ==
    (Resolved /\ self.sector_order_pattern \in BlockPatterns /\ EvenGrid) =>
        LET cells == (0..(call.sectors_y - 1)) \X (0..(call.sectors_x - 1))
            n == call.sectors_x * call.sectors_y
        IN  /\ call.ret = IndexAt(call.display_row, call.col)
            /\ call.ret \in 0..(n - 1)
            /\ { IndexAt(p[1], p[2]) : p \in cells } = 0..(n - 1)
            /\ \A p, q \in cells : IndexAt(p[1], p[2]) = IndexAt(q[1], q[2]) => p = q
            /\ \A br \in 0..(call.sectors_y \div 2 - 1), bc \in 0..(call.sectors_x \div 2 - 1) :
                  \E b \in 0..(n \div 4 - 1) :
                      BlockIndices(br, bc) = {4 * b, 4 * b + 1, 4 * b + 2, 4 * b + 3}
            /\ call.ret \div 4 = IndexAt(2 * (call.display_row \div 2), 2 * (call.col \div 2)) \div 4

\* cell (1, 3) of a 4-column, 2-row grid under Swap 0<->3: the bottom-right
\* cell of the second block, index 4
C28_Witness ==
    /\ Resolved
    /\ self.sector_order_pattern = PatSwap03
    /\ call.sectors_x = 4 /\ call.sectors_y = 2
    /\ call.display_row = 1 /\ call.col = 3
    /\ call.ret = 4

\* sector k's height grid and water record are those of a file sd<k>.csdat
\* of directory dir
LoadedFrom(dir, k) ==
    \E j \in DOMAIN dir.files :
        /\ py_int(dir.files[j].stem).ok
        /\ py_int(dir.files[j].stem).value = k
        /\ self.sectors_data[k].file = dir.files[j].file
        /\ self.water_data[k]
              = [ParsedWater[dir.files[j].file, platform] EXCEPT !.sector_num = k]

\* C29: after every call of load_sectors and of reload_textures the sectors
\* that have a water record are the sectors that have a height grid, every
\* sector that has a texture has a height grid, every water record is
\* stored under its own sector number, and every record is one of the
\* directory now selected: none of a load made before is left.
C29_RecordsOfLoad ==
    /\ DOMAIN self.water_data = DOMAIN self.sectors_data
    /\ DOMAIN self.sectors_textures \subseteq DOMAIN self.sectors_data
    /\ \A k \in DOMAIN self.water_data : self.water_data[k].sector_num = k
    /\ \A k \in DOMAIN self.sectors_data : LoadedFrom(DirOf(self.current_directory), k)

Exported == call.fn = "export_heightmap" /\ call.height_data # None /\ call.file_path # ""

\* C30: a grayscale export, 8-bit or 16-bit, of a height mosaic whose
\* samples are all equal ends in "Export Successful" and writes an image
\* whose pixels are all 0; it does not end in "Export Error".
C30_FlatExport ==
    ( /\ Exported
      /\ call.color_mode = "Grayscale"
      /\ call.file_path = "map.png"
      /\ Cardinality(SamplesOf(combined_map(call.height_data))) = 1 )
    =>
        /\ call.ret.outcome = "Export Successful"
        /\ call.ret.mode = (IF call.height_scale = "16-bit (0-65535)" THEN "I;16" ELSE "L")
        /\ \A h \in SamplesOf(combined_map(call.height_data)) :
              scaled_data(call.ret, h) = 0

====
